---------------------------- MODULE Spec2Model ----------------------------
(***************************************************************************)
(* A model of the intelliRead ingestion and retrieval pipeline:            *)
(*   - generateChunks / saveChunk     (lib/pdfProcessor, pages/Index)      *)
(*   - generateEmbedding / cosineSimilarity / searchChunks (vectorSearch)  *)
(*   - detectTables / structureTable                                       *)
(*   - extractTextFromPDF with the image-description collaborator          *)
(*   - the useChat hook (loadChat, sendMessage, clearChat)                 *)
(*   - the IndexedDB store, handleFileSelect and deleteDocument            *)
(*   - extractSections / extractBulletPoints, detectImageOnlyPages         *)
(*   - createSentenceBoundaryChunks                                        *)
(* Text is a sequence of one-character strings.  Floating point values     *)
(* (embeddings, scores) are fixed-point integers in units of 1/FixedOne.   *)
(***************************************************************************)
EXTENDS Integers, Sequences, FiniteSets, TLC

(***************************************************************************)
(* Bounds of the model                                                     *)
(***************************************************************************)
MaxWordLen == 3
MaxSentWords == 4
MaxSent == 60
MaxCandidates == 3
MaxTopK == 4
MaxRows == 4
MaxCols == 4
MaxPages == 3
MaxUserActions == 4
MaxDeletes == 1
MaxRuns == 2
MaxSectionPages == 4
MaxRunRows == 6
MaxParagraphs == 31
MaxParagraphPages == 3
MaxVecLen == 3
MaxTextLen == 22
MaxImageCount == 2
MaxSentences == 21
MaxTextChars == 2100
\* fixed-point resolution: the value 1.0
FixedOne == 1000

(***************************************************************************)
(* Program constants                                                       *)
(***************************************************************************)
ChunkSize == 800
Overlap == 200
MinChunkLen == 50
TargetSize == 800
MaxSize == 1200
EmbeddingDim == 128

(***************************************************************************)
(* State                                                                   *)
(***************************************************************************)
VARIABLES
  \* the IndexedDB object stores (lib/db): sets of records keyed by id
  dbDocuments, dbChunks, dbTables, dbImages, dbChats,
  \* handleFileSelect, lines 148-167: the sections being chunked, the local
  \* array chunks, the loop index i, the document id and the position
  ckSections, ckChunks, ckI, ckDocId, ckPc,
  \* one call searchChunks(query, chunks, topK) and its result
  seQuery, seChunks, seTopK, seResults, sePc,
  \* one call detectTables(textContent, pageNum) and its result
  tbItems, tbPageNum, tbTables, tbPc,
  \* one call extractTextFromPDF(pdfBlob, onProgress, options): the PDF as
  \* the page source yields it, whether options.geminiApiKey is set, the
  \* locals pageAnalysis, pageNum, pages, allTables, totalWordCount,
  \* documentTitle and imageOnlyPageCount, the position, the error thrown,
  \* the value returned, and the answers of the rendering and description
  \* collaborators so far
  exPdf, exGeminiApiKey, exPageAnalysis, exPageNum, exPages, exAllTables,
  exTotalWordCount, exDocumentTitle, exImageOnlyPageCount, exPc, exError,
  exResult, exCalls,
  \* the chat panel: the props documentId and provider of useChat, its
  \* state messages, loading, error and chunks, the loadChat and
  \* handleDeleteChat runs in flight, the last sendMessage call with the
  \* values its closure holds, and the number of selections, sends and
  \* clears the user has made
  chDocumentId, chProvider, chMessages, chLoading, chError, chChunks,
  chLoads, chSend, chUserActions,
  \* the deleteDocument calls made so far: the id, the object store the
  \* call is at, whether it awaits the index read or a delete, the keys
  \* left to delete, the stores as they were when the call started, and
  \* whether no other store operation ran since
  dlRuns,
  \* the page Index: the state isProcessing, processingStatus and
  \* selectedDocumentId, the documents of useDocuments, the handleFileSelect
  \* runs started so far with their locals, and the number of timers set by
  \* their finally blocks that have not fired yet
  inIsProcessing, inProcessingStatus, inSelectedDocumentId, inDocuments,
  inRuns, inTimers,
  \* one call extractSections(pages) and its result
  sxPages, sxSections, sxPc,
  \* one call createSentenceBoundaryChunks(text) and its result
  sbText, sbChunks, sbPc,
  \* one call detectImageOnlyPages(pdfBlob): the pages of the PDF and the
  \* results returned
  dpPdf, dpResults, dpPc,
  \* the calls cosineSimilarity(vecA, vecB) and cosineSimilarity(vecB, vecA)
  \* on one pair of vectors and their results (<<>> before the call)
  smVecA, smVecB, smForward, smBackward

dbVars == <<dbDocuments, dbChunks, dbTables, dbImages, dbChats>>
ckVars == <<ckSections, ckChunks, ckI, ckDocId, ckPc>>
seVars == <<seQuery, seChunks, seTopK, seResults, sePc>>
tbVars == <<tbItems, tbPageNum, tbTables, tbPc>>
exVars == <<exPdf, exGeminiApiKey, exPageAnalysis, exPageNum, exPages,
           exAllTables, exTotalWordCount, exDocumentTitle,
           exImageOnlyPageCount, exPc, exError, exResult, exCalls>>
chVars == <<chDocumentId, chProvider, chMessages, chLoading, chError,
           chChunks, chLoads, chSend, chUserActions>>
dlVars == <<dlRuns>>
inVars == <<inIsProcessing, inProcessingStatus, inSelectedDocumentId,
           inDocuments, inRuns, inTimers>>
sxVars == <<sxPages, sxSections, sxPc>>
sbVars == <<sbText, sbChunks, sbPc>>
dpVars == <<dpPdf, dpResults, dpPc>>
smVars == <<smVecA, smVecB, smForward, smBackward>>
vars == <<dbVars, ckVars, seVars, tbVars, exVars, chVars, dlVars, inVars,
          sxVars, sbVars, dpVars, smVars>>

\* what a step of one component leaves alone
restOfChunking == <<seVars, tbVars, exVars, chVars, dlVars, inVars, sxVars, sbVars, dpVars, smVars>>
restOfSearch == <<dbVars, ckVars, tbVars, exVars, chVars, dlVars, inVars, sxVars, sbVars, dpVars, smVars>>
restOfTables == <<dbVars, ckVars, seVars, exVars, chVars, dlVars, inVars, sxVars, sbVars, dpVars, smVars>>
restOfExtract == <<dbVars, ckVars, seVars, tbVars, chVars, dlVars, inVars, sxVars, sbVars, dpVars, smVars>>
restOfChat == <<dbDocuments, dbTables, dbImages, ckVars, seVars, tbVars, exVars, dlVars, inVars, sxVars, sbVars, dpVars, smVars>>
restOfDelete == <<ckVars, seVars, tbVars, exVars, chVars, inVars, sxVars, sbVars, dpVars, smVars>>
restOfSections == <<dbVars, ckVars, seVars, tbVars, exVars, chVars, dlVars, inVars, sbVars, dpVars, smVars>>
restOfSentences == <<dbVars, ckVars, seVars, tbVars, exVars, chVars, dlVars, inVars, sxVars, dpVars, smVars>>
restOfClassify == <<dbVars, ckVars, seVars, tbVars, exVars, chVars, dlVars, inVars, sxVars, sbVars, smVars>>
restOfSimilarity == <<dbVars, ckVars, seVars, tbVars, exVars, chVars, dlVars, inVars, sxVars, sbVars, dpVars>>
restOfIngest == <<dbImages, dbChats, ckVars, seVars, tbVars, exVars, chVars, dlVars, sxVars, sbVars, dpVars, smVars>>

(***************************************************************************)
(* Characters and strings                                                  *)
(***************************************************************************)
Whitespace == {" ", "\n"}
Terminators == {".", "!", "?"}

IsSpace(c) == c \in Whitespace

\* String.prototype.charCodeAt on the model's alphabet
CharCode(c) ==
  CASE c = "a" -> 97 [] c = "b" -> 98 [] c = "c" -> 99 [] c = "d" -> 100
    [] c = "A" -> 65 [] c = "B" -> 66 [] c = "C" -> 67 [] c = "D" -> 68
    [] c = " " -> 32 [] c = "\n" -> 10 [] c = "." -> 46 [] c = "!" -> 33
    [] c = "?" -> 63 [] c = "-" -> 45 [] c = "[" -> 91 [] c = "]" -> 93
    [] OTHER -> 120

UpperLetters ==
  <<"A", "B", "C", "D", "E", "F", "G", "H", "I", "J", "K", "L", "M",
    "N", "O", "P", "Q", "R", "S", "T", "U", "V", "W", "X", "Y", "Z">>

UpperCase == {UpperLetters[i] : i \in 1..Len(UpperLetters)}

LowerLetters ==
  <<"a", "b", "c", "d", "e", "f", "g", "h", "i", "j", "k", "l", "m",
    "n", "o", "p", "q", "r", "s", "t", "u", "v", "w", "x", "y", "z">>

\* String.prototype.toLowerCase, character by character
LowerChar(c) ==
  CASE c = "A" -> "a" [] c = "B" -> "b" [] c = "C" -> "c" [] c = "D" -> "d"
    [] OTHER -> IF c \in UpperCase
                THEN LowerLetters[CHOOSE i \in 1..Len(UpperLetters) : UpperLetters[i] = c]
                ELSE c

ToLowerCase(s) == [i \in 1..Len(s) |-> LowerChar(s[i])]

\* String.prototype.substring(from, to) with 0-based offsets, to exclusive
Substring(s, from, to) == SubSeq(s, from + 1, to)

RECURSIVE TrimStart(_)
TrimStart(s) ==
  IF s # <<>> /\ IsSpace(Head(s)) THEN TrimStart(Tail(s)) ELSE s

RECURSIVE TrimEnd(_)
TrimEnd(s) ==
  IF s # <<>> /\ IsSpace(s[Len(s)]) THEN TrimEnd(SubSeq(s, 1, Len(s) - 1)) ELSE s

\* String.prototype.trim
Trim(s) == TrimEnd(TrimStart(s))

\* String.prototype.includes
Includes(s, w) ==
  \E i \in 1..(Len(s) - Len(w) + 1) : SubSeq(s, i, i + Len(w) - 1) = w

\* the pieces of two adjacent stretches put together: the last piece of
\* the left one and the first piece of the right one are one piece
JoinPieces(l, r) == SubSeq(l, 1, Len(l) - 1) \o <<l[Len(l)] \o r[1]>> \o Tail(r)

RECURSIVE SplitEach(_, _, _)
\* the pieces of s[lo..hi] when every whitespace character separates two
\* pieces (computed by halving, to keep the evaluation shallow; the two
\* halves are bound as values, so that each is computed once)
SplitEach(s, lo, hi) ==
  IF lo > hi THEN << <<>> >>
  ELSE IF lo = hi
       THEN IF IsSpace(s[lo]) THEN << <<>>, <<>> >> ELSE << <<s[lo]>> >>
       ELSE CHOOSE pieces \in
              { JoinPieces(l, r) : l \in {SplitEach(s, lo, (lo + hi) \div 2)},
                                   r \in {SplitEach(s, (lo + hi) \div 2 + 1, hi)} } : TRUE

NonEmpty(piece) == piece # <<>>

\* String.prototype.split(/\s+/): a run of whitespace is one separator;
\* leading or trailing whitespace yields an empty first or last piece, and
\* the empty string yields one empty piece
DropInnerEmpty(p) ==
  IF Len(p) < 2 THEN p
  ELSE <<p[1]>> \o SelectSeq(SubSeq(p, 2, Len(p) - 1), NonEmpty) \o <<p[Len(p)]>>

SplitWS(s) ==
  CHOOSE pieces \in { DropInnerEmpty(p) : p \in {SplitEach(s, 1, Len(s))} } : TRUE

RECURSIVE JoinWith(_, _)
\* Array.prototype.join(sep)
JoinWith(parts, sep) ==
  IF parts = <<>> THEN <<>>
  ELSE IF Len(parts) = 1 THEN parts[1]
  ELSE parts[1] \o sep \o JoinWith(Tail(parts), sep)

Min(a, b) == IF a < b THEN a ELSE b
Abs(a) == IF a < 0 THEN -a ELSE a

(***************************************************************************)
(* vectorSearch: generateEmbedding, cosineSimilarity, searchChunks         *)
(***************************************************************************)
\* A 32-bit hash value is kept as two 16-bit limbs <<high, low>>.
\* hash = ((hash << 5) - hash) + charCode; hash = hash & hash
\* is 31 * hash + charCode wrapped to 32 bits.
HashStep(h, code) ==
  LET t == 31 * h[2] + code
  IN  <<(31 * h[1] + (t \div 65536)) % 65536, t % 65536>>

RECURSIVE HashFrom(_, _, _)
HashFrom(word, i, h) ==
  IF i > Len(word) THEN h
  ELSE HashFrom(word, i + 1, HashStep(h, CharCode(word[i])))

HashWord(word) == HashFrom(word, 1, <<0, 0>>)

\* Math.abs(hash) % embedding.length, the hash read as a signed 32-bit
\* value (EmbeddingDim divides 65536, so the low limb decides the residue)
HashIndex(h) ==
  IF h[1] >= 32768
  THEN (EmbeddingDim - (h[2] % EmbeddingDim)) % EmbeddingDim
  ELSE h[2] % EmbeddingDim

\* words.forEach((word, idx) => { embedding[index] += 1;
\* embedding[(index + idx) % length] += 0.5 }): the bucket counts after the
\* loop, kept in halves ("+= 1" adds 2 and "+= 0.5" adds 1)
Accumulate(words, dim) ==
  LET index == [k \in 1..Len(words) |-> HashIndex(HashWord(words[k]))]
  IN  [b \in 1..dim |->
         2 * Cardinality({k \in 1..Len(words) : index[k] = b - 1})
         + Cardinality({k \in 1..Len(words) : (index[k] + (k - 1)) % dim = b - 1})]

RECURSIVE SumRange(_, _, _)
\* v[lo] + ... + v[hi], by halving
SumRange(v, lo, hi) ==
  IF lo > hi THEN 0
  ELSE IF lo = hi THEN v[lo]
  ELSE LET mid == (lo + hi) \div 2
       IN  SumRange(v, lo, mid) + SumRange(v, mid + 1, hi)

SumSquares(v) == SumRange([i \in 1..Len(v) |-> v[i] * v[i]], 1, Len(v))

RECURSIVE SqrtSearch(_, _, _)
\* the largest r in lo..hi with r * r <= n
SqrtSearch(n, lo, hi) ==
  IF lo >= hi THEN lo
  ELSE LET mid == (lo + hi + 1) \div 2
       IN  IF mid * mid <= n THEN SqrtSearch(n, mid, hi)
           ELSE SqrtSearch(n, lo, mid - 1)

\* Math.sqrt, rounded down
ISqrt(n) == SqrtSearch(n, 0, 46340)

\* the Normalize step of generateEmbedding: embedding[i] /= magnitude
Normalize(emb) ==
  LET mag10 == ISqrt(100 * SumSquares(emb))
  IN  IF mag10 > 0
      THEN [i \in 1..Len(emb) |-> (emb[i] * FixedOne * 10) \div mag10]
      ELSE emb

generateEmbedding(text) ==
  Normalize(Accumulate(SplitWS(ToLowerCase(text)), EmbeddingDim))

DotProduct(a, b) == SumRange([i \in 1..Len(a) |-> a[i] * b[i]], 1, Len(a))

\* the projection on the first vector: the dot product over its squared norm
cosineSimilarity_OverFirstNorm(vecA, vecB) ==
  IF Len(vecA) # Len(vecB) THEN 0
  ELSE IF SumSquares(vecA) = 0 THEN 0
  ELSE (DotProduct(vecA, vecB) * FixedOne) \div SumSquares(vecA)

cosineSimilarity(vecA, vecB) ==
  IF Len(vecA) # Len(vecB) THEN 0
  ELSE LET dotProduct == DotProduct(vecA, vecB)
           normA == SumSquares(vecA)
           normB == SumSquares(vecB)
           denominator == ISqrt(normA) * ISqrt(normB)
       IN  IF denominator = 0 THEN 0
           ELSE (dotProduct * FixedOne) \div denominator

\* a boost for whole words of the text only
KeywordBoost_WholeWords(queryWords, textLower) ==
  (FixedOne \div 10) * Cardinality({i \in 1..Len(queryWords) :
                                      \E j \in 1..Len(SplitWS(textLower)) :
                                        SplitWS(textLower)[j] = queryWords[i]})

\* the keyword boost of searchChunks: +0.1 per query word found in the text
KeywordBoost(queryWords, textLower) ==
  (FixedOne \div 10) * Cardinality({i \in 1..Len(queryWords) : Includes(textLower, queryWords[i])})

RECURSIVE InsertByScore(_, _)
\* r goes behind every element whose score is not lower: the order of
\* Array.prototype.sort((a, b) => b.score - a.score), which is stable
InsertByScore(sorted, r) ==
  IF sorted = <<>> THEN <<r>>
  ELSE IF Head(sorted).score >= r.score
       THEN <<Head(sorted)>> \o InsertByScore(Tail(sorted), r)
       ELSE <<r>> \o sorted

RECURSIVE SortByScore(_, _)
SortByScore(results, acc) ==
  IF results = <<>> THEN acc
  ELSE SortByScore(Tail(results), InsertByScore(acc, Head(results)))

\* results.map(chunk => ({...chunk, score})) and the boost loop
ScoreChunks(query, chunks) ==
  LET queryEmbedding == generateEmbedding(query)
      queryWords == SplitWS(ToLowerCase(query))
  IN  [i \in 1..Len(chunks) |->
         [chunk |-> chunks[i],
          score |-> cosineSimilarity(queryEmbedding, chunks[i].embedding)
                    + KeywordBoost(queryWords, ToLowerCase(chunks[i].text))]]

\* slice(0, k + 1): one result too many
SliceTo_OneMore(s, k) == SubSeq(s, 1, Min(k + 1, Len(s)))

\* Array.prototype.slice(0, k)
SliceTo(s, k) == SubSeq(s, 1, Min(k, Len(s)))

searchChunks(query, chunks, topK) ==
  SliceTo(SortByScore(ScoreChunks(query, chunks), <<>>), topK)

(***************************************************************************)
(* pdfProcessor: generateChunks                                            *)
(***************************************************************************)
RECURSIVE ChunkSection(_, _, _)
\* the while loop of generateChunks over one section
ChunkSection(section, startIdx, chunkIdx) ==
  IF startIdx >= Len(section.content) THEN <<>>
  ELSE LET endIdx == Min(startIdx + ChunkSize, Len(section.content))
           chunkText == Trim(Substring(section.content, startIdx, endIdx))
       IN  IF Len(chunkText) > MinChunkLen
           THEN <<[text |-> chunkText, section |-> section.title,
                   page |-> section.page, chunkIndex |-> chunkIdx]>>
                \o ChunkSection(section, startIdx + ChunkSize - Overlap, chunkIdx + 1)
           ELSE ChunkSection(section, startIdx + ChunkSize - Overlap, chunkIdx)

RECURSIVE generateChunks(_)
generateChunks(sections) ==
  IF sections = <<>> THEN <<>>
  ELSE ChunkSection(Head(sections), 0, 0) \o generateChunks(Tail(sections))


(***************************************************************************)
(* The store (lib/db)                                                      *)
(***************************************************************************)
\* IDBObjectStore.put: insert, or replace the record with the same key
Put(store, rec) == {r \in store : r.id # rec.id} \cup {rec}

\* IDBObjectStore.delete
Delete(store, id) == {r \in store : r.id # id}

\* IDBIndex.getAll on the 'by-document' index
GetAllFromIndex(store, documentId) == {r \in store : r.documentId = documentId}

EmptyStore ==
  /\ dbDocuments = {} /\ dbChunks = {} /\ dbTables = {}
  /\ dbImages = {} /\ dbChats = {}

(***************************************************************************)
(* The components at rest: each specification below runs one component     *)
(* and leaves the others in these states                                   *)
(***************************************************************************)
ChunkingIdle ==
  /\ ckSections = <<>> /\ ckChunks = <<>> /\ ckI = 0 /\ ckDocId = 0
  /\ ckPc = "idle"

SearchIdle ==
  /\ seQuery = <<>> /\ seChunks = <<>> /\ seTopK = 0 /\ seResults = <<>>
  /\ sePc = "idle"

TablesIdle ==
  /\ tbItems = <<>> /\ tbPageNum = 0 /\ tbTables = <<>> /\ tbPc = "idle"

\* the value of exResult before extractTextFromPDF has returned
NoResult ==
  [pages |-> <<>>, tables |-> <<>>, pageCount |-> 0, wordCount |-> 0,
   title |-> <<>>, isImageBased |-> FALSE, imageOnlyPageCount |-> 0]

ExtractIdle ==
  /\ exPdf = <<>> /\ exGeminiApiKey = FALSE /\ exPageAnalysis = <<>>
  /\ exPageNum = 0 /\ exPages = <<>> /\ exAllTables = <<>>
  /\ exTotalWordCount = 0 /\ exDocumentTitle = <<>>
  /\ exImageOnlyPageCount = 0 /\ exPc = "idle" /\ exError = "none"
  /\ exResult = NoResult /\ exCalls = <<>>

NoSend ==
  [pc |-> "none", documentId |-> 0, provider |-> "groq", messages |-> <<>>,
   newMessages |-> <<>>, relevantChunks |-> <<>>, failed |-> "none"]

ChatIdle ==
  /\ chDocumentId = 0 /\ chProvider = "groq" /\ chMessages = <<>>
  /\ chLoading = FALSE /\ chError = "none" /\ chChunks = <<>>
  /\ chLoads = <<>> /\ chSend = NoSend /\ chUserActions = 0

DeleteIdle == dlRuns = <<>>

IngestIdle ==
  /\ inIsProcessing = FALSE /\ inProcessingStatus = "" /\ inSelectedDocumentId = 0
  /\ inDocuments = <<>> /\ inRuns = <<>> /\ inTimers = 0

SectionsIdle == sxPages = <<>> /\ sxSections = <<>> /\ sxPc = "idle"

SentencesIdle == sbText = <<>> /\ sbChunks = <<>> /\ sbPc = "idle"

ClassifyIdle == dpPdf = <<>> /\ dpResults = <<>> /\ dpPc = "idle"

SimilarityIdle == smVecA = <<>> /\ smVecB = <<>> /\ smForward = <<>> /\ smBackward = <<>>

PureCallsIdle == SectionsIdle /\ SentencesIdle /\ ClassifyIdle /\ SimilarityIdle

(***************************************************************************)
(* One retrieval: searchChunks on a list of stored chunks                  *)
(***************************************************************************)
\* the record handed to saveChunk for a chunk; uuidv4() is a fresh id
ChunkRecord(documentId, chunk, id) ==
  [id |-> id, documentId |-> documentId,
   text |-> chunk.text, section |-> chunk.section, page |-> chunk.page,
   chunkIndex |-> chunk.chunkIndex,
   startOffset |-> 0, endOffset |-> Len(chunk.text),
   embedding |-> generateEmbedding(chunk.text)]

\* chunk texts and queries of the retrieval runs
SampleTexts ==
  { <<"a", "b", " ", "c", "d">>,
    <<"C", "d", " ", "c", "d", ".">>,
    <<"b", "a", "b", " ", "d">> }

SampleQueries ==
  { <<"a", "b">>,
    <<"c", "d", " ", "A", "B">>,
    <<" ", "d">>,
    <<"b", "b", " ", "c">>,
    <<>> }

\* the lists of at most n stored chunks with sample texts
CandidateLists(n) ==
  UNION { [1..len -> SampleTexts] : len \in 0..n }

StoredChunks(texts) ==
  [i \in 1..Len(texts) |->
     ChunkRecord(1, [text |-> texts[i], section |-> "Section 1", page |-> 1,
                     chunkIndex |-> i - 1], <<1, "chunk", i - 1>>)]

SearchInit ==
  /\ seQuery \in SampleQueries
  /\ \E texts \in CandidateLists(MaxCandidates) : seChunks = StoredChunks(texts)
  /\ seTopK \in 0..MaxTopK
  /\ seResults = <<>>
  /\ sePc = "ready"

SearchStep ==
  /\ sePc = "ready"
  /\ seResults' = searchChunks(seQuery, seChunks, seTopK)
  /\ sePc' = "done"
  /\ UNCHANGED <<seQuery, seChunks, seTopK, restOfSearch>>

InitSearch == SearchInit /\ EmptyStore /\ ChunkingIdle /\ TablesIdle /\ ExtractIdle /\ ChatIdle /\ DeleteIdle /\ IngestIdle /\ PureCallsIdle

SpecSearch == InitSearch /\ [][SearchStep]_vars

\* the final score searchChunks gives the i-th candidate
FinalScore(i) == ScoreChunks(seQuery, seChunks)[i].score

\* C4: searchChunks returns exactly min(k, n) results, each a distinct
\* candidate carrying its final score, in non-increasing order of score,
\* and no candidate left out scores higher than one returned
C4_TopKSortedByScore ==
  sePc = "done" =>
    /\ Len(seResults) = Min(seTopK, Len(seChunks))
    /\ Len(seResults) <= seTopK
    /\ \A r \in 1..Len(seResults) :
         \E i \in 1..Len(seChunks) :
           /\ seResults[r].chunk = seChunks[i]
           /\ seResults[r].score = FinalScore(i)
    /\ \A r1, r2 \in 1..Len(seResults) :
         /\ r1 # r2 => seResults[r1].chunk.id # seResults[r2].chunk.id
         /\ r1 < r2 => seResults[r1].score >= seResults[r2].score
    /\ \A i \in 1..Len(seChunks) :
         (\A r \in 1..Len(seResults) : seResults[r].chunk.id # seChunks[i].id)
           => \A r \in 1..Len(seResults) : seResults[r].score >= FinalScore(i)

\* a retrieval that had to drop a candidate scoring lower than one it
\* returned, and returned two candidates of different scores
C4_Witness ==
  /\ sePc = "done"
  /\ seTopK >= 2
  /\ Len(seChunks) > seTopK
  /\ seResults[1].score > seResults[2].score
  /\ \E i \in 1..Len(seChunks) :
       /\ \A r \in 1..Len(seResults) : seResults[r].chunk.id # seChunks[i].id
       /\ FinalScore(i) < seResults[Len(seResults)].score

\* the places <<first, last>> of the words of a query: the longest
\* stretches without whitespace
WordPlaces(query) ==
  { place \in (1..Len(query)) \X (1..Len(query)) :
      /\ place[1] <= place[2]
      /\ \A k \in place[1]..place[2] : ~IsSpace(query[k])
      /\ place[1] = 1 \/ IsSpace(query[place[1] - 1])
      /\ place[2] = Len(query) \/ IsSpace(query[place[2] + 1]) }

\* the empty words a split on whitespace yields: one for the empty query,
\* one for whitespace at the start and one for whitespace at the end
EmptyWords(query) ==
  IF query = <<>> THEN 1
  ELSE (IF IsSpace(query[1]) THEN 1 ELSE 0)
       + (IF IsSpace(query[Len(query)]) THEN 1 ELSE 0)

\* the number of words of the lowercased query that occur in the
\* lowercased text (the empty word occurs in every text)
MatchingWords(query, text) ==
  Cardinality({ place \in WordPlaces(query) :
                  Includes(ToLowerCase(text),
                           ToLowerCase(SubSeq(query, place[1], place[2]))) })
  + EmptyWords(query)

\* C19: the score of every result is the cosine similarity of the query
\* embedding and the chunk embedding plus 0.1 for each word of the
\* lowercased query that occurs in the lowercased chunk text; so two
\* results with identical embeddings differ by 0.1 per such word
C19_ScoreIsSimilarityPlusBoost ==
  sePc = "done" =>
    /\ \A r \in 1..Len(seResults) :
         seResults[r].score =
           cosineSimilarity(generateEmbedding(seQuery), seResults[r].chunk.embedding)
           + (FixedOne \div 10) * MatchingWords(seQuery, seResults[r].chunk.text)
    /\ \A r1, r2 \in 1..Len(seResults) :
         seResults[r1].chunk.embedding = seResults[r2].chunk.embedding =>
           seResults[r1].score - seResults[r2].score =
             (FixedOne \div 10) * (MatchingWords(seQuery, seResults[r1].chunk.text)
                                   - MatchingWords(seQuery, seResults[r2].chunk.text))

\* a retrieval in which one chunk holds two words of the query, one of
\* them inside a longer word, and another chunk holds fewer
C19_Witness ==
  /\ sePc = "done"
  /\ \E r1, r2 \in 1..Len(seResults) :
       /\ MatchingWords(seQuery, seResults[r1].chunk.text) >= 2
       /\ MatchingWords(seQuery, seResults[r2].chunk.text) = 1
       /\ seResults[r1].score > seResults[r2].score
  /\ \E r \in 1..Len(seResults) :
       /\ Includes(ToLowerCase(seResults[r].chunk.text), <<"b", "a", "b">>)
       /\ seQuery = <<"c", "d", " ", "A", "B">>

\* ---- cosineSimilarity called on a pair of vectors in both orders ----
\* vector components in units of 1/FixedOne
VecValues == {0 - 600, 0, 400}

Vectors == UNION { [1..n -> VecValues] : n \in 0..MaxVecLen }

SimilarityInit ==
  /\ smVecA \in Vectors /\ smVecB \in Vectors
  /\ smForward = <<>> /\ smBackward = <<>>

\* cosineSimilarity(vecA, vecB)
CallForward ==
  /\ smForward = <<>>
  /\ smForward' = <<cosineSimilarity(smVecA, smVecB)>>
  /\ UNCHANGED <<smVecA, smVecB, smBackward, restOfSimilarity>>

\* cosineSimilarity(vecB, vecA)
CallBackward ==
  /\ smBackward = <<>>
  /\ smBackward' = <<cosineSimilarity(smVecB, smVecA)>>
  /\ UNCHANGED <<smVecA, smVecB, smForward, restOfSimilarity>>

SimilarityNext == CallForward \/ CallBackward

InitSimilarity ==
  /\ SimilarityInit /\ EmptyStore /\ ChunkingIdle /\ SearchIdle /\ TablesIdle
  /\ ExtractIdle /\ ChatIdle /\ DeleteIdle /\ IngestIdle /\ SectionsIdle
  /\ SentencesIdle /\ ClassifyIdle

SpecSimilarity == InitSimilarity /\ [][SimilarityNext]_vars

ZeroNorm(v) == \A i \in 1..Len(v) : v[i] = 0

\* C23: cosineSimilarity gives the same value for (a, b) and for (b, a),
\* for every pair of vectors; for vectors of different lengths and when one
\* of them has norm zero both orders give 0
C23_SimilarityIsSymmetric ==
  (smForward # <<>> /\ smBackward # <<>>) =>
    /\ smForward = smBackward
    /\ (Len(smVecA) # Len(smVecB) \/ ZeroNorm(smVecA) \/ ZeroNorm(smVecB)) =>
         (smForward = <<0>> /\ smBackward = <<0>>)

\* both calls made on two different vectors of the same length that are not
\* orthogonal, one of them longer (in norm) than the other
C23_Witness ==
  /\ smForward # <<>> /\ smBackward # <<>>
  /\ Len(smVecA) = Len(smVecB)
  /\ SumSquares(smVecA) # SumSquares(smVecB)
  /\ smForward # <<0>>

(***************************************************************************)
(* Chunking and saving the chunks of one document                          *)
(* (handleFileSelect: generateChunks, generateEmbedding, saveChunk)        *)
(***************************************************************************)
\* The text of nSent sentences separated by one space, each sentence being
\* sentWords words of wordLen letters "a" separated by one space and closed
\* by a full stop: "aa aa. aa aa. aa aa."
MakeText(wordLen, sentWords, nSent) ==
  LET sentLen == sentWords * (wordLen + 1)
      total == nSent * (sentLen + 1) - 1
  IN  [i \in 1..total |->
         LET q == (i - 1) % (sentLen + 1)
         IN  IF q = sentLen THEN " "
             ELSE IF q = sentLen - 1 THEN "."
             ELSE IF q % (wordLen + 1) = wordLen THEN " "
             ELSE "a"]

ChunkingInit ==
  /\ \E wordLen \in 1..MaxWordLen, sentWords \in 1..MaxSentWords, nSent \in 1..MaxSent :
       ckSections = <<[title |-> "Section 1",
                       content |-> MakeText(wordLen, sentWords, nSent),
                       page |-> 1]>>
  /\ ckChunks = <<>> /\ ckI = 0 /\ ckDocId = 1
  /\ ckPc = "generate"

\* const chunks = generateChunks(extraction.pages, sections, documentId)
GenerateChunksStep ==
  /\ ckPc = "generate"
  /\ ckChunks' = generateChunks(ckSections)
  /\ ckI' = 0
  /\ ckPc' = "save"
  /\ UNCHANGED <<ckSections, ckDocId, dbVars, restOfChunking>>

\* one iteration of the loop "for (let i = 0; i < chunks.length; i++)"
SaveChunkStep ==
  /\ ckPc = "save"
  /\ ckI < Len(ckChunks)
  /\ dbChunks' = Put(dbChunks, ChunkRecord(ckDocId, ckChunks[ckI + 1], <<ckDocId, "chunk", ckI>>))
  /\ ckI' = ckI + 1
  /\ UNCHANGED <<ckSections, ckChunks, ckDocId, ckPc>>
  /\ UNCHANGED <<dbDocuments, dbTables, dbImages, dbChats, restOfChunking>>

ChunkingNext == GenerateChunksStep \/ SaveChunkStep

InitChunking == ChunkingInit /\ EmptyStore /\ SearchIdle /\ TablesIdle /\ ExtractIdle /\ ChatIdle /\ DeleteIdle /\ IngestIdle /\ PureCallsIdle

SpecChunking == InitChunking /\ [][ChunkingNext]_vars

\* the chunk text occupies content[first..last]
OccursAt(content, text, first) ==
  /\ first >= 1
  /\ first + Len(text) - 1 <= Len(content)
  /\ SubSeq(content, first, first + Len(text) - 1) = text

\* position first opens a sentence: nothing but whitespace precedes it, or
\* the nearest preceding non-space character is a terminator and whitespace
\* separates it from position first
StartsSentence(content, first) ==
  \/ \A j \in 1..(first - 1) : IsSpace(content[j])
  \/ /\ first > 2
     /\ IsSpace(content[first - 1])
     /\ \E k \in 1..(first - 2) :
          /\ content[k] \in Terminators
          /\ \A j \in (k + 1)..(first - 1) : IsSpace(content[j])

\* position last closes a sentence: nothing but whitespace follows it, or
\* it holds a terminator that whitespace follows
EndsSentence(content, last) ==
  \/ \A j \in (last + 1)..Len(content) : IsSpace(content[j])
  \/ /\ content[last] \in Terminators
     /\ last < Len(content)
     /\ IsSpace(content[last + 1])

CutAtSentenceBoundaries(content, text) ==
  \E first \in 1..Len(content) :
    /\ OccursAt(content, text, first)
    /\ StartsSentence(content, first)
    /\ EndsSentence(content, first + Len(text) - 1)

\* C1: every persisted chunk starts and ends at a sentence boundary of its
\* section's content (so neither inside a sentence nor inside a word)
C1_PersistedChunksCutAtSentences ==
  \A c \in dbChunks :
    \E i \in 1..Len(ckSections) :
      /\ ckSections[i].title = c.section
      /\ CutAtSentenceBoundaries(ckSections[i].content, c.text)

\* the chunks of the section with the given title, in index order
SectionChunks(title) == SelectSeq(ckChunks, LAMBDA c : c.section = title)

\* the texts of the chunks put together, every chunk but the first without
\* its first Overlap characters
WithoutOverlap(chunks) ==
  JoinWith([k \in 1..Len(chunks) |->
              IF k = 1 THEN chunks[k].text
              ELSE SubSeq(chunks[k].text, Overlap + 1, Len(chunks[k].text))],
           <<>>)

\* C16: the chunks of a section, concatenated in index order without the
\* 200-character overlap between consecutive chunks, reconstruct the
\* content of the section
C16_ChunksReconstructSection ==
  ckPc = "save" =>
    \A i \in 1..Len(ckSections) :
      WithoutOverlap(SectionChunks(ckSections[i].title)) = ckSections[i].content

(***************************************************************************)
(* pdfProcessor: detectTables, structureTable                              *)
(***************************************************************************)
\* Math.round(item.transform[5] / 5) * 5, on integer coordinates
RoundTo5(y) == ((2 * y + 5) \div 10) * 5

\* items.forEach: items whose trimmed text is empty are skipped
TextItems(items) == SelectSeq(items, LAMBDA item : Trim(item.str) # <<>>)

\* the keys of the Map rows
RowKeys(items) == {RoundTo5(TextItems(items)[i].y) : i \in 1..Len(TextItems(items))}

\* rows.get(y): the items of one row, in the order they were pushed
RowItems(items, key) == SelectSeq(TextItems(items), LAMBDA item : RoundTo5(item.y) = key)

RECURSIVE InsertByX(_, _)
\* the order of items.sort((a, b) => a.transform[4] - b.transform[4])
InsertByX(sorted, item) ==
  IF sorted = <<>> THEN <<item>>
  ELSE IF Head(sorted).x <= item.x
       THEN <<Head(sorted)>> \o InsertByX(Tail(sorted), item)
       ELSE <<item>> \o sorted

RECURSIVE SortByX(_, _)
SortByX(row, acc) ==
  IF row = <<>> THEN acc ELSE SortByX(Tail(row), InsertByX(acc, Head(row)))

RECURSIVE KeysDescending(_)
\* Array.from(rows.entries()).sort((a, b) => b[0] - a[0]): top row first
KeysDescending(keys) ==
  IF keys = {} THEN <<>>
  ELSE LET top == CHOOSE k \in keys : \A other \in keys : other <= k
       IN  <<top>> \o KeysDescending(keys \ {top})

SortedRows(items) ==
  LET keys == KeysDescending(RowKeys(items))
  IN  [r \in 1..Len(keys) |-> SortByX(RowItems(items, keys[r]), <<>>)]

structureTable(rows, pageNum, tableIndex) ==
  LET headers == [c \in 1..Len(rows[1]) |-> Trim(rows[1][c].str)]
      data == [r \in 1..(Len(rows) - 1) |->
                 [c \in 1..Len(rows[r + 1]) |-> Trim(rows[r + 1][c].str)]]
  IN  [id |-> <<pageNum, "table", tableIndex>>,
       documentId |-> 0,
       tableIndex |-> tableIndex,
       page |-> pageNum,
       headers |-> headers,
       data |-> data,
       rows |-> Len(data),
       columns |-> Len(headers)]

\* if (currentTable.length >= 2): a run of two rows already makes a table
EnoughRows_Two(currentTable) == Len(currentTable) >= 2

\* if (currentTable.length >= 3)
EnoughRows(currentTable) == Len(currentTable) >= 3

\* the run is saved as a table if it has enough rows
SaveRun(tables, currentTable, pageNum) ==
  IF EnoughRows(currentTable)
  THEN Append(tables, structureTable(currentTable, pageNum, Len(tables)))
  ELSE tables

\* a row joins the run only if it has as many columns as the row before
JoinsRun_SameCount(colCount, currentTable, prevColCount) ==
  colCount >= 2 /\ (Len(currentTable) = 0 \/ colCount = prevColCount)

\* colCount >= 2 && (currentTable.length === 0 ||
\*                   Math.abs(colCount - prevColCount) <= 2)
JoinsRun(colCount, currentTable, prevColCount) ==
  colCount >= 2 /\ (Len(currentTable) = 0 \/ Abs(colCount - prevColCount) <= 2)

RECURSIVE ScanRows(_, _, _, _, _, _)
\* sortedRows.forEach((row, idx) => ...) and the flush after the loop
ScanRows(sortedRows, idx, currentTable, prevColCount, tables, pageNum) ==
  IF idx > Len(sortedRows) THEN SaveRun(tables, currentTable, pageNum)
  ELSE LET row == sortedRows[idx]
           colCount == Len(row)
       IN  IF JoinsRun(colCount, currentTable, prevColCount)
           THEN ScanRows(sortedRows, idx + 1, Append(currentTable, row),
                         colCount, tables, pageNum)
           ELSE ScanRows(sortedRows, idx + 1,
                         IF colCount >= 2 THEN <<row>> ELSE <<>>,
                         colCount, SaveRun(tables, currentTable, pageNum), pageNum)

detectTables(items, pageNum) ==
  IF Len(items) = 0 THEN <<>>
  ELSE CHOOSE tables \in
         { ScanRows(sortedRows, 1, <<>>, 0, <<>>, pageNum) :
             sortedRows \in {SortedRows(items)} } : TRUE

\* ---- one page of positioned text items and its tables ----
Letter(n) == <<"a", "b", "c", "d", "A", "B", "C", "D">>[n]

\* The items of a page laid out as rows of cells: row r (1 is the top row)
\* has colCounts[r] cells; cell (r, c) has the text "<r><c> ", sits at
\* x = 10 * c and within 2 units of the row's baseline.  With blank, an
\* item of whitespace sits on every baseline.  The items are listed bottom
\* row first and right cell first.
GridItems(colCounts, blank) ==
  LET nRows == Len(colCounts)
      cell(r, c) == [str |-> <<Letter(r), Letter(c), " ">>,
                     x |-> 10 * c,
                     y |-> 10 * (nRows - r + 1) + ((r + c) % 5) - 2]
      spacer(r) == [str |-> <<" ">>, x |-> 0, y |-> 10 * (nRows - r + 1)]
      rowItems(r) == [k \in 1..colCounts[r] |-> cell(r, colCounts[r] - k + 1)]
                     \o (IF blank THEN <<spacer(r)>> ELSE <<>>)
      RECURSIVE from(_)
      from(r) == IF r = 0 THEN <<>> ELSE rowItems(r) \o from(r - 1)
  IN  from(nRows)

ColCountLists == UNION { [1..n -> 1..MaxCols] : n \in 1..MaxRows }

TablesInit ==
  /\ \E colCounts \in ColCountLists, blank \in BOOLEAN :
       tbItems = GridItems(colCounts, blank)
  /\ tbPageNum = 1
  /\ tbTables = <<>>
  /\ tbPc = "ready"

DetectTablesStep ==
  /\ tbPc = "ready"
  /\ tbTables' = detectTables(tbItems, tbPageNum)
  /\ tbPc' = "done"
  /\ UNCHANGED <<tbItems, tbPageNum, restOfTables>>

InitTables == TablesInit /\ EmptyStore /\ ChunkingIdle /\ SearchIdle /\ ExtractIdle /\ ChatIdle /\ DeleteIdle /\ IngestIdle /\ PureCallsIdle

SpecTables == InitTables /\ [][DetectTablesStep]_vars

\* C5: every table is rectangular: each data row has as many cells as
\* there are headers
C5_TablesRectangular ==
  \A t \in 1..Len(tbTables) :
    \A r \in 1..Len(tbTables[t].data) :
      Len(tbTables[t].data[r]) = Len(tbTables[t].headers)

\* the rows of the page, top row first, as the lists of their cell texts
PageRows ==
  LET rows == SortedRows(tbItems)
  IN  [r \in 1..Len(rows) |-> [c \in 1..Len(rows[r]) |-> Trim(rows[r][c].str)]]

\* header and data of a table, as one list of rows
TableRows(table) == <<table.headers>> \o table.data

\* C6: every table has one header row and at least 2 data rows, and is a
\* block of at least 3 consecutive rows of the page that have 2 or more
\* cells each; a page with fewer than 3 such rows has no table
C6_TablesHaveThreeRows ==
  tbPc = "done" =>
    /\ \A t \in 1..Len(tbTables) :
         /\ Len(tbTables[t].headers) >= 2
         /\ Len(tbTables[t].data) >= 2
         /\ tbTables[t].rows = Len(tbTables[t].data)
         /\ \E first \in 1..Len(PageRows) :
              /\ first + Len(tbTables[t].data) <= Len(PageRows)
              /\ \A k \in 1..Len(TableRows(tbTables[t])) :
                   /\ TableRows(tbTables[t])[k] = PageRows[first + k - 1]
                   /\ Len(PageRows[first + k - 1]) >= 2
    /\ Cardinality({r \in 1..Len(PageRows) : Len(PageRows[r]) >= 2}) < 3
         => tbTables = <<>>

\* a page of 4 rows whose first three rows became a table of 1 header row
\* and 2 data rows, the run being closed by a fourth row of one cell
C6_Witness ==
  /\ tbPc = "done"
  /\ Len(tbTables) = 1
  /\ Len(tbTables[1].data) = 2
  /\ Len(PageRows) = 4
  /\ Len(PageRows[4]) = 1

\* ---- pages whose rows differ in their number of cells ----
RunColCounts == {1, 2, 4, 5}

TableRunsInit ==
  /\ \E n \in 1..MaxRunRows :
       \E colCounts \in [1..n -> RunColCounts] :
         tbItems = GridItems(colCounts, FALSE)
  /\ tbPageNum = 1
  /\ tbTables = <<>>
  /\ tbPc = "ready"

InitTableRuns == TableRunsInit /\ EmptyStore /\ ChunkingIdle /\ SearchIdle /\ ExtractIdle /\ ChatIdle /\ DeleteIdle /\ IngestIdle /\ PureCallsIdle

SpecTableRuns == InitTableRuns /\ [][DetectTablesStep]_vars

\* row r of the rows goes on with the run of the row above it
ContinuesRun(rows, r) ==
  /\ r > 1
  /\ Len(rows[r]) >= 2
  /\ Len(rows[r - 1]) >= 2
  /\ Abs(Len(rows[r]) - Len(rows[r - 1])) <= 2

\* rows first..last are one run, from the row that opens it to the last
\* row before the run closes
RowRun(rows, first, last) ==
  /\ first <= last
  /\ Len(rows[first]) >= 2
  /\ ~ContinuesRun(rows, first)
  /\ \A r \in (first + 1)..last : ContinuesRun(rows, r)
  /\ last = Len(rows) \/ ~ContinuesRun(rows, last + 1)

\* the runs of 3 rows or more
LongRuns(rows) ==
  { run \in (1..Len(rows)) \X (1..Len(rows)) :
      RowRun(rows, run[1], run[2]) /\ run[2] - run[1] + 1 >= 3 }

\* C21: a row joins the current run if and only if it has at least 2 items
\* and the run is empty or its column count differs from that of the row
\* above by at most 2; otherwise the run closes, and a closing row of at
\* least 2 items opens the next run.  So the tables of a page are its runs
\* of 3 rows or more, top to bottom, and a grid of 3 rows of 4 items is one
\* table of 1 header row and 2 data rows
C21_TablesAreRowRuns ==
  tbPc = "done" =>
    \A rows \in {PageRows} :
      \A runs \in {LongRuns(rows)} :
        /\ Len(tbTables) = Cardinality(runs)
        /\ \A t \in 1..Len(tbTables) :
             \E run \in runs :
               /\ TableRows(tbTables[t]) = SubSeq(rows, run[1], run[2])
               /\ Cardinality({other \in runs : other[1] < run[1]}) = t - 1
        /\ (Len(rows) = 3 /\ \A r \in 1..3 : Len(rows[r]) = 4) =>
             /\ Len(tbTables) = 1
             /\ tbTables[1].headers = rows[1]
             /\ tbTables[1].data = <<rows[2], rows[3]>>

\* a page of two tables: a run closed by a row with 3 cells more, and that
\* row opening the second run
C21_Witness ==
  /\ tbPc = "done"
  /\ Len(tbTables) = 2
  /\ \E rows \in {PageRows} :
       /\ Len(rows) = 6
       /\ \A r \in 1..3 : Len(rows[r]) = 2
       /\ \A r \in 4..6 : Len(rows[r]) = 5
       /\ tbTables[2].headers = rows[4]


(***************************************************************************)
(* pdfProcessor: detectImageOnlyPages, extractTextFromPDF                  *)
(* apiClient: generateImageDescription                                     *)
(***************************************************************************)
\* "[Image Content - Page "
ImageContentPrefix ==
  <<"[", "I", "m", "a", "g", "e", " ", "C", "o", "n", "t", "e", "n",
    "t", " ", "-", " ", "P", "a", "g", "e", " ">>

\* "Image content detected on this page."
ImageDetectedText ==
  <<"I", "m", "a", "g", "e", " ", "c", "o", "n", "t", "e", "n", "t",
    " ", "d", "e", "t", "e", "c", "t", "e", "d", " ", "o", "n", " ",
    "t", "h", "i", "s", " ", "p", "a", "g", "e", ".">>

\* "Image content detected on this page. Configure Gemini API for
\* AI-powered image analysis."
ConfigureGeminiText ==
  <<"I", "m", "a", "g", "e", " ", "c", "o", "n", "t", "e", "n", "t",
    " ", "d", "e", "t", "e", "c", "t", "e", "d", " ", "o", "n", " ",
    "t", "h", "i", "s", " ", "p", "a", "g", "e", ".", " ", "C", "o",
    "n", "f", "i", "g", "u", "r", "e", " ", "G", "e", "m", "i", "n",
    "i", " ", "A", "P", "I", " ", "f", "o", "r", " ", "A", "I", "-",
    "p", "o", "w", "e", "r", "e", "d", " ", "i", "m", "a", "g", "e",
    " ", "a", "n", "a", "l", "y", "s", "i", "s", ".">>

\* "Image from document": what generateImageDescription returns from its
\* catch block
ImageFromDocumentText ==
  <<"I", "m", "a", "g", "e", " ", "f", "r", "o", "m", " ", "d", "o",
    "c", "u", "m", "e", "n", "t">>

\* "Untitled Document"
UntitledDocument ==
  <<"U", "n", "t", "i", "t", "l", "e", "d", " ", "D", "o", "c", "u",
    "m", "e", "n", "t">>

\* a description the service returns: "A chart."
SampleDescription ==
  <<"A", " ", "c", "h", "a", "r", "t", ".">>

\* a page number below 10 in decimal
Digits(n) == << <<"0", "1", "2", "3", "4", "5", "6", "7", "8", "9">>[n + 1] >>

\* `[Image Content - Page ${pageNum}]\n${description}`
ImagePageText(pageNum, description) ==
  ImageContentPrefix \o Digits(pageNum) \o <<"]", "\n">> \o description

\* items.map(item => item.str).join(' ').trim()
ItemsText(items) == Trim(JoinWith([i \in 1..Len(items) |-> items[i].str], <<" ">>))

\* the entry detectImageOnlyPages pushes for one page
AnalysePage(page, pageNum) ==
  LET hasText == Len(ItemsText(page.items)) > 20
  IN  [pageNum |-> pageNum,
       hasText |-> hasText,
       isImageOnly |-> ~hasText /\ page.imageCount > 0,
       imageCount |-> page.imageCount]

\* pageAnalysis.find(p => p.pageNum === pageNum)?.isImageOnly || false
IsImageOnly(pageAnalysis, pageNum) ==
  \E i \in 1..Len(pageAnalysis) :
    /\ pageAnalysis[i].pageNum = pageNum
    /\ pageAnalysis[i].isImageOnly
    /\ \A j \in 1..(i - 1) : pageAnalysis[j].pageNum # pageNum

\* pageText.split(/\s+/).filter(w => w.length > 0).length
WordCount(text) == Len(SelectSeq(SplitWS(text), NonEmpty))

\* the title taken from the first page: the first item with text (every
\* item has the default height), cut to 100 characters
FirstPageTitle(items) ==
  LET withText == TextItems(items)
  IN  IF withText = <<>> THEN <<>>
      ELSE Substring(Trim(withText[1].str), 0, Min(100, Len(Trim(withText[1].str))))

\* the value extractTextFromPDF returns
ExtractionResult(pages, tables, pageCount, wordCount, title, imageOnlyPageCount) ==
  [pages |-> pages,
   tables |-> tables,
   pageCount |-> pageCount,
   wordCount |-> wordCount,
   title |-> IF title # <<>> THEN title ELSE UntitledDocument,
   isImageBased |-> imageOnlyPageCount > (pageCount - imageOnlyPageCount),
   imageOnlyPageCount |-> imageOnlyPageCount]

\* the catch block leaves the description out of the page text
FallbackPageText_NoPlaceholder(pageNum) == ImagePageText(pageNum, <<>>)

\* the page text set by the catch block of extractTextFromPDF
FallbackPageText(pageNum) == ImagePageText(pageNum, ImageDetectedText)

\* ---- the pages a PDF of the model is made of ----
\* three rows of two cells: 22 characters of text and one table
TextPage == [items |-> GridItems(<<2, 2, 2>>, FALSE), imageCount |-> 0]
\* the same text with a picture on the page
MixedPage == [items |-> GridItems(<<2, 2, 2>>, FALSE), imageCount |-> 1]
\* a scanned page: no text item, one image
ScannedPage == [items |-> <<>>, imageCount |-> 1]
\* a picture with a two-letter caption
CaptionPage == [items |-> GridItems(<<1>>, FALSE), imageCount |-> 2]

SamplePages == {TextPage, MixedPage, ScannedPage, CaptionPage}

SamplePdfs == UNION { [1..n -> SamplePages] : n \in 1..MaxPages }

ExtractInit ==
  /\ exPdf \in SamplePdfs
  /\ exGeminiApiKey \in BOOLEAN
  /\ exPageAnalysis = <<>> /\ exPageNum = 0 /\ exPages = <<>>
  /\ exAllTables = <<>> /\ exTotalWordCount = 0 /\ exDocumentTitle = <<>>
  /\ exImageOnlyPageCount = 0 /\ exPc = "open" /\ exError = "none"
  /\ exResult = NoResult /\ exCalls = <<>>

\* pdfjsLib.getDocument(...).promise resolves
OpenPdf ==
  /\ exPc = "open"
  /\ exPc' = "analyze"
  /\ exPageNum' = 1
  /\ UNCHANGED <<exPdf, exGeminiApiKey, exPageAnalysis, exPages, exAllTables,
                 exTotalWordCount, exDocumentTitle, exImageOnlyPageCount,
                 exError, exResult, exCalls, restOfExtract>>

\* the PDF source fails (getDocument, getPage, getTextContent or
\* getOperatorList rejects): nothing catches it in extractTextFromPDF
PdfSourceFails ==
  /\ exPc \in {"open", "analyze", "page"}
  /\ exPc' = "error"
  /\ exError' = "InvalidPDFException"
  /\ UNCHANGED <<exPdf, exGeminiApiKey, exPageAnalysis, exPageNum, exPages,
                 exAllTables, exTotalWordCount, exDocumentTitle,
                 exImageOnlyPageCount, exResult, exCalls, restOfExtract>>

\* a page is extracted right after it is classified
AnalysePageStep_ThenExtract ==
  /\ exPc = "analyze"
  /\ exPageAnalysis' = Append(exPageAnalysis, AnalysePage(exPdf[exPageNum], exPageNum))
  /\ exPc' = "page"
  /\ UNCHANGED <<exPdf, exGeminiApiKey, exPageNum, exPages, exAllTables,
                 exTotalWordCount, exDocumentTitle, exImageOnlyPageCount,
                 exError, exResult, exCalls, restOfExtract>>

\* one iteration of the loop of detectImageOnlyPages; after the last page
\* the loop of extractTextFromPDF starts at page 1
AnalysePageStep ==
  /\ exPc = "analyze"
  /\ exPageAnalysis' = Append(exPageAnalysis, AnalysePage(exPdf[exPageNum], exPageNum))
  /\ IF exPageNum < Len(exPdf)
     THEN exPageNum' = exPageNum + 1 /\ exPc' = "analyze"
     ELSE exPageNum' = 1 /\ exPc' = "page"
  /\ UNCHANGED <<exPdf, exGeminiApiKey, exPages, exAllTables, exTotalWordCount,
                 exDocumentTitle, exImageOnlyPageCount, exError, exResult,
                 exCalls, restOfExtract>>

\* the rest of one loop iteration, from pages.push on, for the page text
\* and description decided; after the last page, the return
FinishPage(pageText, isImageOnly, imageDescription, imageOnlyPageCount) ==
  \E text \in {pageText}, items \in {exPdf[exPageNum].items} :
    /\ exPages' = Append(exPages, [page |-> exPageNum, text |-> text,
                                   items |-> items, isImageOnly |-> isImageOnly,
                                   imageDescription |-> imageDescription])
    /\ exTotalWordCount' = exTotalWordCount + WordCount(text)
    /\ exDocumentTitle' =
         IF exPageNum = 1 /\ Len(items) > 0 /\ FirstPageTitle(items) # <<>>
         THEN FirstPageTitle(items) ELSE exDocumentTitle
    /\ exAllTables' = IF ~isImageOnly
                      THEN exAllTables \o detectTables(items, exPageNum)
                      ELSE exAllTables
    /\ exImageOnlyPageCount' = imageOnlyPageCount
    /\ IF exPageNum < Len(exPdf)
       THEN /\ exPageNum' = exPageNum + 1
            /\ exPc' = "page"
            /\ exResult' = exResult
       ELSE /\ exPageNum' = exPageNum
            /\ exPc' = "returned"
            /\ exResult' = ExtractionResult(exPages', exAllTables', Len(exPdf),
                                            exTotalWordCount', exDocumentTitle',
                                            imageOnlyPageCount)

\* a loop iteration up to its first await on a collaborator: a text page
\* and an image-only page without API key are finished at once
StartPage ==
  /\ exPc = "page"
  /\ LET isImageOnly == IsImageOnly(exPageAnalysis, exPageNum)
     IN  IF isImageOnly /\ exGeminiApiKey
         THEN /\ exImageOnlyPageCount' = exImageOnlyPageCount + 1
              /\ exPc' = "render"
              /\ UNCHANGED <<exPageNum, exPages, exAllTables, exTotalWordCount,
                             exDocumentTitle, exResult>>
         ELSE IF isImageOnly
         THEN FinishPage(ImagePageText(exPageNum, ConfigureGeminiText), TRUE,
                         ImageDetectedText, exImageOnlyPageCount + 1)
         ELSE FinishPage(ItemsText(exPdf[exPageNum].items), FALSE, <<>>,
                         exImageOnlyPageCount)
  /\ UNCHANGED <<exPdf, exGeminiApiKey, exPageAnalysis, exError, exCalls,
                 restOfExtract>>

\* await renderPageToImage(pdfBlob, pageNum) settles
RenderSettles ==
  /\ exPc = "render"
  /\ \E ok \in BOOLEAN :
       /\ exCalls' = Append(exCalls, [page |-> exPageNum, call |-> "render", ok |-> ok])
       /\ IF ok
          THEN /\ exPc' = "describe"
               /\ UNCHANGED <<exPageNum, exPages, exAllTables, exTotalWordCount,
                              exDocumentTitle, exImageOnlyPageCount, exResult>>
          ELSE FinishPage(FallbackPageText(exPageNum), TRUE, ImageDetectedText,
                          exImageOnlyPageCount)
  /\ UNCHANGED <<exPdf, exGeminiApiKey, exPageAnalysis, exError, restOfExtract>>

\* generateImageDescription: the text of the response, or the text of its
\* own catch block when the call fails
generateImageDescription(ok) ==
  IF ok THEN SampleDescription ELSE ImageFromDocumentText

\* await generateImageDescription(pageImageBlob, geminiApiKey) settles
DescriptionSettles ==
  /\ exPc = "describe"
  /\ \E ok \in BOOLEAN :
       /\ exCalls' = Append(exCalls, [page |-> exPageNum, call |-> "describe", ok |-> ok])
       /\ FinishPage(ImagePageText(exPageNum, generateImageDescription(ok)), TRUE,
                     generateImageDescription(ok), exImageOnlyPageCount)
  /\ UNCHANGED <<exPdf, exGeminiApiKey, exPageAnalysis, exError, restOfExtract>>

ExtractNext ==
  \/ OpenPdf
  \/ PdfSourceFails
  \/ AnalysePageStep
  \/ StartPage
  \/ RenderSettles
  \/ DescriptionSettles

InitExtract == ExtractInit /\ EmptyStore /\ ChunkingIdle /\ SearchIdle /\ TablesIdle /\ ChatIdle /\ DeleteIdle /\ IngestIdle /\ PureCallsIdle

SpecExtract == InitExtract /\ [][ExtractNext]_vars

\* a step that classifies page n (an iteration of detectImageOnlyPages)
ClassifiesPage(n) ==
  exPc = "analyze" /\ exPageNum = n /\ Len(exPageAnalysis') = Len(exPageAnalysis) + 1

\* a step that begins the extraction of page n (an iteration of the loop of
\* extractTextFromPDF)
BeginsExtraction(n) ==
  exPc = "page" /\ exPageNum = n /\ (exPc' # "page" \/ Len(exPages') = Len(exPages) + 1)

\* C25 as stated: a step that classifies page N+1 or begins its extraction
\* is taken only when both the classification and the extraction of page N
\* are complete
C25_OnePageAfterAnother ==
  [][\A n \in 1..(MaxPages + 1) :
       (ClassifiesPage(n + 1) \/ BeginsExtraction(n + 1)) =>
         (Len(exPageAnalysis) >= n /\ Len(exPages) >= n)]_vars

\* C25 (amended): the pages are processed in two passes, each strictly in
\* page order: while pages are classified no page has been extracted and
\* pages 1..N-1 are classified when page N is; the extraction of a page
\* begins only when every page of the PDF is classified, and page N is
\* being extracted (its awaited rendering and description included) only
\* when exactly pages 1..N-1 are extracted
C25_TwoPassesInPageOrder ==
  /\ exPc = "analyze" =>
       /\ exPages = <<>>
       /\ Len(exPageAnalysis) = exPageNum - 1
  /\ exPc \in {"page", "render", "describe"} =>
       /\ Len(exPageAnalysis) = Len(exPdf)
       /\ Len(exPages) = exPageNum - 1
  /\ \A i \in 1..Len(exPageAnalysis) : exPageAnalysis[i].pageNum = i
  /\ \A i \in 1..Len(exPages) : exPages[i].page = i

\* page 2 of a PDF of three pages is about to be extracted: all three pages
\* are classified and page 1 alone is extracted
C25_Witness ==
  /\ exPc = "page" /\ exPageNum = 2 /\ Len(exPdf) = 3
  /\ Len(exPageAnalysis) = 3 /\ Len(exPages) = 1

\* C30: the tables returned by extractTextFromPDF have the tableIndex
\* values 0, 1, ..., n-1 in the order of detection over all pages, hence
\* pairwise distinct, and the page of each table is a text page of the PDF,
\* pages not decreasing along the list
C30_TableIndexCountsOverDocument ==
  exPc = "returned" =>
    \A tables \in {exResult.tables} :
      /\ \A i \in 1..Len(tables) :
           /\ tables[i].tableIndex = i - 1
           /\ tables[i].page \in 1..Len(exPdf)
           /\ ~exResult.pages[tables[i].page].isImageOnly
      /\ \A i, j \in 1..Len(tables) : i < j => tables[i].page <= tables[j].page

\* The steps of the run itself and of the local page rendering are taken
\* when they can be. Nothing bounds the time the description service takes
\* to answer: the call has no timeout and no abort signal, so its settling
\* is not a fair step
SpecExtractLive ==
  /\ InitExtract
  /\ [][ExtractNext]_vars
  /\ WF_vars(OpenPdf)
  /\ WF_vars(AnalysePageStep)
  /\ WF_vars(StartPage)
  /\ WF_vars(RenderSettles)

\* C11: an extraction that awaits the description of an image-only page
\* ends, returning a result or throwing, whether or not the description
\* service ever answers
C11_ExtractionEndsWithoutAnswer ==
  (exPc = "describe") ~> (exPc \in {"returned", "error"})

\* the collaborator calls that failed so far
FailedCalls == {i \in 1..Len(exCalls) : ~exCalls[i].ok}

\* the page of exPages with page number n is already pushed
Pushed(n) == n <= Len(exPages)

\* C2: a failed rendering or description call of an image-only page is
\* caught: the page is pushed with the fallback placeholder as its text
\* (that of extractTextFromPDF after a failed rendering, that of
\* generateImageDescription after a failed description), the extraction
\* goes on to the next page or returns, a returned result holds every page
\* of the PDF, and only a failure of the PDF source ends in the error state
C2_ImageFailureIsAbsorbed ==
  /\ \A i \in FailedCalls :
       LET n == exCalls[i].page
       IN  /\ exPc = "error" => exError = "InvalidPDFException"
           /\ Pushed(n)
           /\ exPages[n].page = n
           /\ exPages[n].isImageOnly
           /\ exCalls[i].call = "render" =>
                exPages[n].text = ImagePageText(n, ImageDetectedText)
           /\ exCalls[i].call = "describe" =>
                exPages[n].text = ImagePageText(n, ImageFromDocumentText)
           /\ exPc \in {"page", "render", "describe"} => exPageNum > n
  /\ exPc = "error" => exError = "InvalidPDFException"
  /\ exPc = "returned" =>
       /\ exResult.pageCount = Len(exPdf)
       /\ Len(exResult.pages) = Len(exPdf)
       /\ \A n \in 1..Len(exPdf) : exResult.pages[n].page = n

\* an extraction that returned after the rendering of page 1 and the
\* description of page 2 had failed, page 3 being processed after them
C2_Witness ==
  /\ exPc = "returned"
  /\ Len(exPdf) = 3
  /\ \E i, j \in FailedCalls :
       /\ exCalls[i].page = 1 /\ exCalls[i].call = "render"
       /\ exCalls[j].page = 2 /\ exCalls[j].call = "describe"
  /\ exResult.pages[1].text = ImagePageText(1, ImageDetectedText)
  /\ exResult.pages[2].text = ImagePageText(2, ImageFromDocumentText)


(***************************************************************************)
(* pdfProcessor: extractSections, extractBulletPoints                      *)
(***************************************************************************)
DecimalDigits == {"0", "1", "2", "3", "4", "5", "6", "7", "8", "9"}

MinOf(S) == CHOOSE x \in S : \A y \in S : x <= y
MaxOf(S) == CHOOSE x \in S : \A y \in S : x >= y

\* Math.ceil(a / b) for a >= 0 and b > 0
CeilDiv(a, b) == (a + b - 1) \div b

\* Offsets into a text are 0-based as in the code: the character at offset
\* p is t[p + 1].  The offset at which the longest run of characters of S
\* that starts at offset p ends (a greedy quantifier over S)
RunEnd(t, p, S) ==
  CHOOSE q \in p..Len(t) :
    /\ \A k \in (p + 1)..q : t[k] \in S
    /\ q = Len(t) \/ t[q + 1] \notin S

\* the word w stands at offset p
StartsWith(t, p, w) == p + Len(w) <= Len(t) /\ SubSeq(t, p + 1, p + Len(w)) = w

ChapterWord == <<"C", "h", "a", "p", "t", "e", "r">>
SectionWord == <<"S", "e", "c", "t", "i", "o", "n">>
PartWord == <<"P", "a", "r", "t">>

\* (?:Chapter|Section|Part)\s+\d+[.:]\s* tried at offset b: the offset after
\* the match, or -1
NumberedHeadingEnd(t, b) ==
  LET k == IF StartsWith(t, b, ChapterWord) THEN b + Len(ChapterWord)
           ELSE IF StartsWith(t, b, SectionWord) THEN b + Len(SectionWord)
           ELSE IF StartsWith(t, b, PartWord) THEN b + Len(PartWord)
           ELSE -1
      w == RunEnd(t, k, Whitespace)
      d == RunEnd(t, w, DecimalDigits)
  IN  IF k < 0 THEN -1
      ELSE IF w = k \/ d = w THEN -1
      ELSE IF d < Len(t) /\ t[d + 1] \in {".", ":"}
           THEN RunEnd(t, d + 1, Whitespace)
           ELSE -1

\* (?:\d+\.?\s+)? tried at offset b: the offset after the optional number
\* (b itself when there is none)
NumberPrefixEnd(t, b) ==
  LET d == RunEnd(t, b, DecimalDigits)
      dot == IF d < Len(t) /\ t[d + 1] = "." THEN d + 1 ELSE d
      w == RunEnd(t, dot, Whitespace)
  IN  IF d > b /\ w > dot THEN w ELSE b

\* [A-Z][A-Z\s]{3,}(?:\n|$) tried at offset c under the flag m: the run
\* of capitals and whitespace is taken as long as possible and given back
\* until a newline or the end of the text follows
CapsHeadingEnd(t, c) ==
  IF c >= Len(t) \/ t[c + 1] \notin UpperCase THEN -1
  ELSE LET r == RunEnd(t, c + 1, UpperCase \cup Whitespace)
           stops == { e \in (c + 4)..r : e = Len(t) \/ t[e + 1] = "\n" }
       IN  IF stops = {} THEN -1
           ELSE IF MaxOf(stops) = Len(t) THEN Len(t) ELSE MaxOf(stops) + 1

\* the two alternatives after (?:^|\n), in their order
HeadingEnd(t, b) ==
  IF NumberedHeadingEnd(t, b) >= 0 THEN NumberedHeadingEnd(t, b)
  ELSE CapsHeadingEnd(t, NumberPrefixEnd(t, b))

\* sectionPatterns tried at offset s: ^ matches at the start of a line,
\* and otherwise, or when the rest fails there, a newline is consumed
SectionPatternEnd(t, s) ==
  LET atLineStart == IF s = 0 \/ t[s] = "\n" THEN HeadingEnd(t, s) ELSE -1
  IN  IF atLineStart >= 0 THEN atLineStart
      ELSE IF s < Len(t) /\ t[s + 1] = "\n" THEN HeadingEnd(t, s + 1)
      ELSE -1

RECURSIVE MatchIndices(_, _)
\* [...fullText.matchAll(sectionPatterns)].map(m => m.index), searching
\* from offset from on
MatchIndices(t, from) ==
  LET starts == { s \in from..Len(t) : SectionPatternEnd(t, s) >= 0 }
  IN  IF starts = {} THEN <<>>
      ELSE <<MinOf(starts)>> \o MatchIndices(t, SectionPatternEnd(t, MinOf(starts)))

RECURSIVE SplitOnRuns(_, _, _)
\* String.prototype.split on a pattern that matches a run of at least
\* minRun characters of S: split(/\n{2,}/) and split(/[.!?]+/)
SplitOnRuns(t, S, minRun) ==
  LET breaks == { p \in 0..(Len(t) - minRun) : \A k \in 1..minRun : t[p + k] \in S }
  IN  IF breaks = {} THEN <<t>>
      ELSE <<SubSeq(t, 1, MinOf(breaks))>>
           \o SplitOnRuns(SubSeq(t, RunEnd(t, MinOf(breaks), S) + 1, Len(t)), S, minRun)

ImportantKeywords ==
  << <<"i", "m", "p", "o", "r", "t", "a", "n", "t">>, <<"k", "e", "y">>,
     <<"m", "a", "i", "n">>, <<"c", "o", "n", "c", "l", "u", "s", "i", "o", "n">>,
     <<"r", "e", "s", "u", "l", "t">>, <<"f", "i", "n", "d", "i", "n", "g">>,
     <<"m", "u", "s", "t">>, <<"s", "h", "o", "u", "l", "d">>,
     <<"s", "h", "o", "w", "s">>, <<"d", "i", "s", "p", "l", "a", "y", "s">>,
     <<"i", "l", "l", "u", "s", "t", "r", "a", "t", "e", "s">> >>

\* "No text content available"
NoTextContentText ==
  <<"N", "o", " ", "t", "e", "x", "t", " ", "c", "o", "n", "t", "e", "n",
    "t", " ", "a", "v", "a", "i", "l", "a", "b", "l", "e">>

\* "Content available"
ContentAvailableText ==
  <<"C", "o", "n", "t", "e", "n", "t", " ", "a", "v", "a", "i", "l", "a",
    "b", "l", "e">>

LongSentence(s) == Len(Trim(s)) > 20

RECURSIVE PickBullets(_, _, _)
\* sentences.forEach((sentence, idx) => ...) from index idx on
PickBullets(sentences, idx, bullets) ==
  IF idx > Len(sentences) THEN bullets
  ELSE LET trimmed == Trim(sentences[idx])
           isImportant == \E k \in 1..Len(ImportantKeywords) :
                            Includes(ToLowerCase(trimmed), ImportantKeywords[k])
       IN  PickBullets(sentences, idx + 1,
             IF Len(bullets) < 5 /\ (idx - 1 < 3 \/ isImportant)
             THEN Append(bullets, Substring(trimmed, 0, Min(200, Len(trimmed))))
             ELSE bullets)

extractBulletPoints(text) ==
  IF Len(text) = 0 THEN <<NoTextContentText>>
  ELSE LET sentences == SelectSeq(SplitOnRuns(text, Terminators, 1), LongSentence)
           bullets == PickBullets(sentences, 1, <<>>)
           head == Trim(Substring(text, 0, Min(200, Len(text))))
       IN  IF Len(bullets) > 0 THEN bullets
           ELSE IF head # <<>> THEN <<head>> ELSE <<ContentAvailableText>>

\* a number below 100 in decimal
Decimal(n) == IF n < 10 THEN Digits(n) ELSE Digits(n \div 10) \o Digits(n % 10)

LongParagraph(p) == Len(Trim(p)) > 50

ParagraphBreak == <<"\n", "\n">>

\* five paragraphs in every group
GroupSize_Five(n) == 5

\* line 596: Math.ceil(n / Math.max(1, Math.floor(n / 5)))
GroupSize(n) == CeilDiv(n, IF n \div 5 > 1 THEN n \div 5 ELSE 1)

\* lines 594-608: no heading found; Math.ceil((i / n) * textPages.length)
\* is computed on exact quotients
ParagraphSections(fullText, textPageCount) ==
  LET paragraphs == SelectSeq(SplitOnRuns(fullText, {"\n"}, 2), LongParagraph)
      n == Len(paragraphs)
      chunkSize == GroupSize(n)
      count == IF n = 0 THEN 0 ELSE CeilDiv(n, chunkSize)
      contentAt(i) == JoinWith(SubSeq(paragraphs, i + 1, Min(i + chunkSize, n)),
                               ParagraphBreak)
  IN  [k \in 1..count |->
         [title |-> SectionWord \o <<" ">> \o Decimal(k),
          content |-> contentAt((k - 1) * chunkSize),
          page |-> CeilDiv((k - 1) * chunkSize * textPageCount, n) + 1,
          bulletPoints |-> extractBulletPoints(contentAt((k - 1) * chunkSize))]]

\* content.match(/^(.+?)(?:\n|$)/): the first line of a content that does
\* not start with a newline
FirstLine(content) ==
  LET newlines == { k \in 1..Len(content) : content[k] = "\n" }
  IN  IF newlines = {} THEN content ELSE SubSeq(content, 1, MinOf(newlines) - 1)

\* lines 610-625: one section per match of sectionPatterns
HeadingSections(fullText, matches, textPageCount) ==
  [i \in 1..Len(matches) |->
     LET start == matches[i]
         end == IF i < Len(matches) THEN matches[i + 1] ELSE Len(fullText)
         content == Trim(Substring(fullText, start, end))
         title == IF content # <<>> /\ content[1] # "\n"
                  THEN Trim(FirstLine(content))
                  ELSE SectionWord \o <<" ">> \o Decimal(i)
     IN  [title |-> Substring(title, 0, Min(80, Len(title))),
          content |-> content,
          page |-> CeilDiv(start * textPageCount, Len(fullText)) + 1,
          bulletPoints |-> extractBulletPoints(content)]]

RECURSIVE GroupImagePages(_, _, _, _)
\* lines 631-649: the loop over imageOnlyPages from index idx on, and the
\* push of the last group
GroupImagePages(imageOnlyPages, idx, currentGroup, imageGroups) ==
  IF idx > Len(imageOnlyPages)
  THEN IF Len(currentGroup) > 0 THEN Append(imageGroups, currentGroup)
       ELSE imageGroups
  ELSE LET page == imageOnlyPages[idx]
       IN  IF Len(currentGroup) = 0
           THEN GroupImagePages(imageOnlyPages, idx + 1, <<page>>, imageGroups)
           ELSE IF page.page = currentGroup[Len(currentGroup)].page + 1
           THEN GroupImagePages(imageOnlyPages, idx + 1,
                                Append(currentGroup, page), imageGroups)
           ELSE GroupImagePages(imageOnlyPages, idx + 1, <<page>>,
                                Append(imageGroups, currentGroup))

\* "Image Content"
ImageContentTitle ==
  <<"I", "m", "a", "g", "e", " ", "C", "o", "n", "t", "e", "n", "t">>

PageTexts(pages) == [i \in 1..Len(pages) |-> pages[i].text]

HasDescription(p) == p.imageDescription # <<>>

\* lines 652-670: the section of one group; the dash of a page range is
\* written "-"
ImageSection(group) ==
  LET startPage == group[1].page
      endPage == group[Len(group)].page
      pageRange == IF startPage = endPage
                   THEN <<"P", "a", "g", "e", " ">> \o Decimal(startPage)
                   ELSE <<"P", "a", "g", "e", "s", " ">> \o Decimal(startPage)
                        \o <<"-">> \o Decimal(endPage)
      described == SelectSeq(group, HasDescription)
  IN  [title |-> ImageContentTitle \o <<" ", "(">> \o pageRange \o <<")">>,
       content |-> JoinWith(PageTexts(group), ParagraphBreak),
       page |-> startPage,
       bulletPoints |-> [i \in 1..Min(5, Len(described)) |->
                           described[i].imageDescription]]

\* "No content extracted from this document."
NoContentText ==
  <<"N", "o", " ", "c", "o", "n", "t", "e", "n", "t", " ", "e", "x", "t",
    "r", "a", "c", "t", "e", "d", " ", "f", "r", "o", "m", " ", "t", "h",
    "i", "s", " ", "d", "o", "c", "u", "m", "e", "n", "t", ".">>

\* lines 673-682: the section pushed when there is none; allText || '...'
\* takes the placeholder only for the empty string
FallbackSection(pages) ==
  LET allText == JoinWith(PageTexts(pages), ParagraphBreak)
  IN  [title |-> IF \E i \in 1..Len(pages) : pages[i].isImageOnly
                 THEN ImageContentTitle
                 ELSE SectionWord \o <<" ">> \o Decimal(1),
       content |-> IF allText # <<>> THEN allText ELSE NoContentText,
       page |-> 1,
       bulletPoints |-> extractBulletPoints(allText)]

RECURSIVE InsertByPage(_, _)
InsertByPage(sorted, section) ==
  IF sorted = <<>> THEN <<section>>
  ELSE IF section.page < Head(sorted).page THEN <<section>> \o sorted
  ELSE <<Head(sorted)>> \o InsertByPage(Tail(sorted), section)

RECURSIVE SortByPage(_)
\* sections.sort((a, b) => a.page - b.page): stable
SortByPage(sections) ==
  IF sections = <<>> THEN <<>>
  ELSE InsertByPage(SortByPage(SubSeq(sections, 1, Len(sections) - 1)),
                    sections[Len(sections)])

ImageOnlyPage(p) == p.isImageOnly
NotImageOnlyPage(p) == ~p.isImageOnly

\* the sections of the text pages, lines 586-626
TextSections(textPages) ==
  LET fullText == JoinWith(PageTexts(textPages), ParagraphBreak)
      matches == MatchIndices(fullText, 0)
  IN  IF Len(matches) = 0 /\ Len(Trim(fullText)) > 50
      THEN ParagraphSections(fullText, Len(textPages))
      ELSE IF Len(matches) > 0
      THEN HeadingSections(fullText, matches, Len(textPages))
      ELSE <<>>

\* every image-only page in one group, adjacent or not
ImageSections_OneGroup(imageOnlyPages) ==
  IF imageOnlyPages = <<>> THEN <<>> ELSE <<ImageSection(imageOnlyPages)>>

\* the sections of the image-only pages, lines 628-671
ImageSections(imageOnlyPages) ==
  LET imageGroups == GroupImagePages(imageOnlyPages, 1, <<>>, <<>>)
  IN  [g \in 1..Len(imageGroups) |-> ImageSection(imageGroups[g])]

extractSections(pages) ==
  LET sections == TextSections(SelectSeq(pages, NotImageOnlyPage))
                  \o ImageSections(SelectSeq(pages, ImageOnlyPage))
  IN  SortByPage(IF Len(sections) = 0 THEN <<FallbackSection(pages)>>
                 ELSE sections)

\* ---- one call of extractSections on the pages of an extraction ----
\* The pages extractTextFromPDF can push: a text page has the trimmed text
\* of its items and no description; an image-only page has the text
\* "[Image Content - Page N]\n..." and a description.
SectionPageKinds ==
  {"empty", "short", "paragraph", "caps", "numbered", "described", "undescribed"}

ShortText == <<"a", "a", " ", "a", "a", ".">>

SectionPage(kind, n) ==
  CASE kind = "empty" ->
         [page |-> n, text |-> <<>>, isImageOnly |-> FALSE,
          imageDescription |-> <<>>]
    [] kind = "short" ->
         [page |-> n, text |-> ShortText, isImageOnly |-> FALSE,
          imageDescription |-> <<>>]
    [] kind = "paragraph" ->
         [page |-> n, text |-> MakeText(2, 4, 5), isImageOnly |-> FALSE,
          imageDescription |-> <<>>]
    [] kind = "caps" ->
         [page |-> n, text |-> <<"A", "B", "C", "D", "\n">> \o MakeText(2, 4, 2),
          isImageOnly |-> FALSE, imageDescription |-> <<>>]
    [] kind = "numbered" ->
         [page |-> n, text |-> PartWord \o <<" ", "1", ":", " ">> \o ShortText,
          isImageOnly |-> FALSE, imageDescription |-> <<>>]
    [] kind = "described" ->
         [page |-> n, text |-> ImagePageText(n, SampleDescription),
          isImageOnly |-> TRUE, imageDescription |-> SampleDescription]
    [] kind = "undescribed" ->
         [page |-> n, text |-> ImagePageText(n, ConfigureGeminiText),
          isImageOnly |-> TRUE, imageDescription |-> ImageDetectedText]

SectionsInit ==
  /\ \E n \in 0..MaxSectionPages :
       \E kinds \in [1..n -> SectionPageKinds] :
         sxPages = [i \in 1..n |-> SectionPage(kinds[i], i)]
  /\ sxSections = <<>>
  /\ sxPc = "ready"

ExtractSectionsStep ==
  /\ sxPc = "ready"
  /\ sxSections' = extractSections(sxPages)
  /\ sxPc' = "done"
  /\ UNCHANGED <<sxPages, restOfSections>>

InitSections ==
  /\ SectionsInit /\ EmptyStore /\ ChunkingIdle /\ SearchIdle /\ TablesIdle
  /\ ExtractIdle /\ ChatIdle /\ DeleteIdle /\ IngestIdle /\ SentencesIdle
  /\ ClassifyIdle /\ SimilarityIdle

SpecSections == InitSections /\ [][ExtractSectionsStep]_vars

\* every page of the list has the empty text (the empty list included)
AllTextEmpty(pages) == \A i \in 1..Len(pages) : pages[i].text = <<>>

\* C12: extractSections returns at least one section for every page list;
\* for the empty list and for pages whose text is all empty it returns one
\* section, whose content is the placeholder "No content extracted from
\* this document."
C12_AtLeastOneSection ==
  sxPc = "done" =>
    /\ Len(sxSections) >= 1
    /\ AllTextEmpty(sxPages) =>
         /\ Len(sxSections) = 1
         /\ sxSections[1].content = NoContentText

\* pages first..last are a longest stretch of image-only pages that follow
\* one another
ImageRun(pages, first, last) ==
  /\ first <= last
  /\ \A n \in first..last : pages[n].isImageOnly /\ pages[n].page = n
  /\ first = 1 \/ ~pages[first - 1].isImageOnly
  /\ last = Len(pages) \/ ~pages[last + 1].isImageOnly

ImageRuns(pages) ==
  { run \in (1..Len(pages)) \X (1..Len(pages)) : ImageRun(pages, run[1], run[2]) }

\* the places in sections of the sections built from image-only pages:
\* their title is "Image Content (Page ...)" or "Image Content (Pages ...)"
ImageDerived(sections) ==
  { i \in 1..Len(sections) :
      StartsWith(sections[i].title, 0, ImageContentTitle \o <<" ", "(">>) }

\* C20: there is exactly one image-derived section for each longest stretch
\* of adjacent image-only pages; it starts at the first page of the stretch
\* and its content is the texts of the pages of the stretch in page order,
\* so image-only pages that a text page separates are in different sections
C20_OneSectionPerImageRun ==
  sxPc = "done" =>
    /\ Cardinality(ImageDerived(sxSections)) = Cardinality(ImageRuns(sxPages))
    /\ \A run \in ImageRuns(sxPages) :
         \E i \in ImageDerived(sxSections) :
           /\ sxSections[i].page = run[1]
           /\ sxSections[i].content =
                JoinWith([k \in 1..(run[2] - run[1] + 1) |-> sxPages[run[1] + k - 1].text],
                         ParagraphBreak)
           /\ \A j \in ImageDerived(sxSections) :
                sxSections[j].page = run[1] => j = i

\* a document with a stretch of two image-only pages and, behind a text
\* page, another image-only page
C20_Witness ==
  /\ sxPc = "done"
  /\ Cardinality(ImageRuns(sxPages)) = 2
  /\ \E run \in ImageRuns(sxPages) : run[2] > run[1]
  /\ \E n \in 2..(Len(sxPages) - 1) :
       /\ ~sxPages[n].isImageOnly
       /\ sxPages[n - 1].isImageOnly /\ sxPages[n + 1].isImageOnly
  /\ Cardinality(ImageDerived(sxSections)) = 2

\* the text of the text pages, as line 587 joins it
FullText(pages) == JoinWith(PageTexts(SelectSeq(pages, NotImageOnlyPage)), ParagraphBreak)

\* C27: for a document of at least one page, every section returned by
\* extractSections has a page number between 1 and the number of pages of
\* the document
C27_SectionPageWithinDocument ==
  (sxPc = "done" /\ Len(sxPages) >= 1) =>
    \A i \in 1..Len(sxSections) :
      sxSections[i].page >= 1 /\ sxSections[i].page <= Len(sxPages)

\* the text of the text pages before the first heading matched
Preamble(text) == Substring(text, 0, MatchIndices(text, 0)[1])

\* C28: when a heading is matched, the contents of the sections of the text
\* pages cover the text of the text pages: what precedes the first heading
\* is in a section unless it is whitespace only
C28_HeadingSectionsCoverText ==
  sxPc = "done" =>
    \A text \in {FullText(sxPages)} :
      (Len(MatchIndices(text, 0)) > 0 /\ Trim(Preamble(text)) # <<>>) =>
        \E i \in 1..Len(sxSections) :
          Includes(sxSections[i].content, Trim(Preamble(text)))

\* ---- extractSections on text pages made of paragraphs ----
\* Paragraph j is 51 letters, the number j and a full stop: more than 50
\* characters, no capital, different from every other paragraph.
SampleParagraph(j) ==
  [i \in 1..51 |-> LowerLetters[((j - 1) % 26) + 1]] \o Decimal(j) \o <<".">>

\* paragraphs first..last separated by blank lines; with withShort a
\* paragraph of 6 characters follows every third of them
ParagraphsText(first, last, withShort) ==
  JoinWith([k \in 1..(last - first + 1) |->
              IF withShort /\ (first + k - 1) % 3 = 0
              THEN SampleParagraph(first + k - 1) \o ParagraphBreak \o ShortText
              ELSE SampleParagraph(first + k - 1)],
           ParagraphBreak)

\* n paragraphs spread over m text pages
ParagraphsInit ==
  /\ \E n \in 1..MaxParagraphs, m \in 1..MaxParagraphPages, withShort \in BOOLEAN :
       sxPages = [i \in 1..m |->
                    [page |-> i,
                     text |-> ParagraphsText(((i - 1) * n) \div m + 1, (i * n) \div m,
                                             withShort),
                     isImageOnly |-> FALSE, imageDescription |-> <<>>]]
  /\ sxSections = <<>>
  /\ sxPc = "ready"

InitParagraphs ==
  /\ ParagraphsInit /\ EmptyStore /\ ChunkingIdle /\ SearchIdle /\ TablesIdle
  /\ ExtractIdle /\ ChatIdle /\ DeleteIdle /\ IngestIdle /\ SentencesIdle
  /\ ClassifyIdle /\ SimilarityIdle

SpecParagraphs == InitParagraphs /\ [][ExtractSectionsStep]_vars

\* the paragraphs of a text: its pieces between runs of two or more newlines
AllParagraphs(text) == SelectSeq(SplitOnRuns(text, {"\n"}, 2), NonEmpty)

\* the case of lines 593-608: no heading matched and more than 50
\* characters of trimmed text
ParagraphCase(text) == Len(MatchIndices(text, 0)) = 0 /\ Len(Trim(text)) > 50

\* the sections are the paragraphs in groups of size paragraphs each (the
\* last one may be smaller), titled "Section 1", "Section 2", ...
GroupedBy(sections, paragraphs, size) ==
  /\ Len(sections) = CeilDiv(Len(paragraphs), size)
  /\ \A k \in 1..Len(sections) :
       /\ sections[k].title = SectionWord \o <<" ">> \o Decimal(k)
       /\ sections[k].content =
            JoinWith(SubSeq(paragraphs, (k - 1) * size + 1,
                            Min(k * size, Len(paragraphs))), ParagraphBreak)

ClassifiedPage(len, padded, imageCount) ==
  [items |-> << [str |-> (IF padded THEN <<" ">> ELSE <<>>)
                          \o [i \in 1..len |-> "a"]
                          \o (IF padded THEN <<" ">> ELSE <<>>),
                 x |-> 10, y |-> 10] >>,
   imageCount |-> imageCount]

ClassifyInit ==
  /\ \E len \in 0..MaxTextLen, padded \in BOOLEAN, imageCount \in 0..MaxImageCount :
       dpPdf = <<ClassifiedPage(len, padded, imageCount)>>
  /\ dpResults = <<>>
  /\ dpPc = "ready"

DetectImageOnlyPagesStep ==
  /\ dpPc = "ready"
  /\ dpResults' = [pageNum \in 1..Len(dpPdf) |-> AnalysePage(dpPdf[pageNum], pageNum)]
  /\ dpPc' = "done"
  /\ UNCHANGED <<dpPdf, restOfClassify>>

InitClassify ==
  /\ ClassifyInit /\ EmptyStore /\ ChunkingIdle /\ SearchIdle /\ TablesIdle
  /\ ExtractIdle /\ ChatIdle /\ DeleteIdle /\ IngestIdle /\ SectionsIdle
  /\ SentencesIdle /\ SimilarityIdle

SpecClassify == InitClassify /\ [][DetectImageOnlyPagesStep]_vars

\* C13: a page is classified image-only if and only if its trimmed
\* extracted text is shorter than 20 characters and its image-operator
\* count is greater than 0
C13_ImageOnlyBelowTwentyChars ==
  dpPc = "done" =>
    \A n \in 1..Len(dpPdf) :
      dpResults[n].isImageOnly <=>
        (Len(ItemsText(dpPdf[n].items)) < 20 /\ dpPdf[n].imageCount > 0)

(***************************************************************************)
(* textChunker: createSentenceBoundaryChunks                               *)
(***************************************************************************)
\* the offset at which the longest run of characters outside S that starts
\* at offset p ends
RunEndOutside(t, p, S) ==
  CHOOSE q \in p..Len(t) :
    /\ \A k \in (p + 1)..q : t[k] \notin S
    /\ q = Len(t) \/ t[q + 1] \in S

RECURSIVE SentenceMatches(_, _)
\* text.match(/[^.!?]+[.!?]+(?=\s|$)/g), searching from offset from on: a
\* match starts at the first character that is no terminator, takes every
\* character up to the next terminator and every terminator after it, and
\* needs whitespace or the end of the text next; where that fails no match
\* starts before the end of the terminators
SentenceMatches(t, from) ==
  LET start == RunEnd(t, from, Terminators)
      stop == RunEndOutside(t, start, Terminators)
      end == RunEnd(t, stop, Terminators)
  IN  IF start = Len(t) \/ stop = Len(t) THEN <<>>
      ELSE IF end = Len(t) \/ IsSpace(t[end + 1])
      THEN <<Substring(t, start, end)>> \o SentenceMatches(t, end)
      ELSE SentenceMatches(t, end)

\* text.match(...) || [text]
Sentences(t) ==
  IF SentenceMatches(t, 0) = <<>> THEN <<t>> ELSE SentenceMatches(t, 0)

TextChunk_CutShort(currentChunk, startOffset, chunkIndex) ==
  [text |-> Trim(SubSeq(currentChunk, 1, Len(currentChunk) - 1)),
   startOffset |-> startOffset,
   endOffset |-> startOffset + Len(currentChunk),
   chunkIndex |-> chunkIndex]

\* the entry pushed for the current chunk
TextChunk(currentChunk, startOffset, chunkIndex) ==
  [text |-> Trim(currentChunk),
   startOffset |-> startOffset,
   endOffset |-> startOffset + Len(currentChunk),
   chunkIndex |-> chunkIndex]

PotentialChunk_NoSeparator(currentChunk, trimmedSentence) ==
  currentChunk \o trimmedSentence

\* potentialChunk = currentChunk + (currentChunk ? ' ' : '') + trimmedSentence
PotentialChunk(currentChunk, trimmedSentence) ==
  currentChunk \o (IF currentChunk # <<>> THEN <<" ">> ELSE <<>>) \o trimmedSentence

ClosesChunk_MaxOnly(potentialChunk, currentChunk, targetSize, maxSize) ==
  Len(potentialChunk) > maxSize /\ Len(currentChunk) > 100

\* the chunk is closed before the sentence: by the maximum rule (line 785)
\* or by the target rule (line 799)
ClosesChunk(potentialChunk, currentChunk, targetSize, maxSize) ==
  \/ Len(potentialChunk) > maxSize /\ Len(currentChunk) > 100
  \/ Len(potentialChunk) >= targetSize /\ Len(currentChunk) > 300

RECURSIVE AccumulateSentences(_, _, _, _, _, _, _)
\* lines 778-825: the loop over the sentences from index idx on, and the
\* push of the final chunk
AccumulateSentences(sentences, idx, currentChunk, startOffset, chunks, targetSize, maxSize) ==
  IF idx > Len(sentences)
  THEN IF Len(Trim(currentChunk)) > 50
       THEN Append(chunks, TextChunk(currentChunk, startOffset, Len(chunks)))
       ELSE chunks
  ELSE LET trimmedSentence == Trim(sentences[idx])
           potentialChunk == PotentialChunk(currentChunk, trimmedSentence)
       IN  IF trimmedSentence = <<>>
           THEN AccumulateSentences(sentences, idx + 1, currentChunk,
                                    startOffset, chunks, targetSize, maxSize)
           ELSE IF ClosesChunk(potentialChunk, currentChunk, targetSize, maxSize)
           THEN AccumulateSentences(sentences, idx + 1, trimmedSentence,
                                    startOffset + Len(currentChunk),
                                    Append(chunks, TextChunk(currentChunk, startOffset,
                                                             Len(chunks))),
                                    targetSize, maxSize)
           ELSE AccumulateSentences(sentences, idx + 1, potentialChunk,
                                    startOffset, chunks, targetSize, maxSize)

createSentenceBoundaryChunks(text, targetSize, maxSize) ==
  AccumulateSentences(Sentences(text), 1, <<>>, 0, <<>>, targetSize, maxSize)

\* ---- one call of createSentenceBoundaryChunks on a text ----
\* a sentence of len characters: letters with a blank after every ninth,
\* closed by a full stop
SampleSentence(len) ==
  [q \in 1..len |->
     IF q = len THEN "." ELSE IF q % 10 = 0 /\ q < len - 1 THEN " " ELSE "a"]

SentenceLengths == {14, 53, 99, 100, 130, 1300, 1600}

\* what stands between two sentences: one blank, two blanks, a newline,
\* or nothing
Separators == { <<" ">>, <<" ", " ">>, <<"\n">>, <<>> }

\* what follows the last sentence: nothing, a blank, or words without a
\* terminator (a few, or more than 50 characters of them)
Fragments ==
  { <<>>, <<" ">>, <<" ", "a", "a", "a">>, [q \in 1..60 |-> IF q % 10 = 1 THEN " " ELSE "a"] }

SampleText(len, count, separator, fragment) ==
  JoinWith([i \in 1..count |-> SampleSentence(len)], separator) \o fragment

SentencesInit ==
  /\ \E len \in SentenceLengths, count \in 0..MaxSentences,
        separator \in Separators, fragment \in Fragments :
       /\ count * (len + 2) <= MaxTextChars
       /\ sbText = SampleText(len, count, separator, fragment)
  /\ sbChunks = <<>>
  /\ sbPc = "ready"

CreateChunksStep ==
  /\ sbPc = "ready"
  /\ sbChunks' = createSentenceBoundaryChunks(sbText, TargetSize, MaxSize)
  /\ sbPc' = "done"
  /\ UNCHANGED <<sbText, restOfSentences>>

InitSentences ==
  /\ SentencesInit /\ EmptyStore /\ ChunkingIdle /\ SearchIdle /\ TablesIdle
  /\ ExtractIdle /\ ChatIdle /\ DeleteIdle /\ IngestIdle /\ SectionsIdle
  /\ ClassifyIdle /\ SimilarityIdle

SpecSentences == InitSentences /\ [][CreateChunksStep]_vars

\* C14: every chunk produced with target 800 and maximum 1200 has a text
\* of 50 to 1500 characters
C14_ChunkLengthWithinLimits ==
  sbPc = "done" =>
    \A i \in 1..Len(sbChunks) :
      Len(sbChunks[i].text) >= 50 /\ Len(sbChunks[i].text) <= 1500

EndsWithTerminator(text) == text # <<>> /\ text[Len(text)] \in Terminators

\* C15: every chunk emitted ends with '.', '!' or '?'; only the final
\* chunk, the last fragment of the text, may end otherwise
C15_ChunksEndOnTerminator ==
  sbPc = "done" =>
    /\ \A i \in 1..(Len(sbChunks) - 1) : EndsWithTerminator(sbChunks[i].text)
    /\ \A i \in 1..Len(sbChunks) :
         ~EndsWithTerminator(sbChunks[i].text) =>
           LET rest == Trim(sbText)
           IN  /\ i = Len(sbChunks)
               /\ Len(sbChunks[i].text) <= Len(rest)
               /\ SubSeq(rest, Len(rest) - Len(sbChunks[i].text) + 1, Len(rest))
                    = sbChunks[i].text

\* a text cut into several chunks, and a text without any terminator
\* whose only chunk ends on a letter
C15_Witness ==
  /\ sbPc = "done"
  /\ \/ Len(sbChunks) >= 3
     \/ Len(sbChunks) = 1 /\ ~EndsWithTerminator(sbChunks[1].text)

\* the trimmed text is sentences that each end in terminators, separated
\* by single blanks
SingleSpacedSentences(text) ==
  LET u == Trim(text)
  IN  /\ u # <<>>
      /\ u[1] \notin Terminators
      /\ u[Len(u)] \in Terminators
      /\ \A k \in 1..(Len(u) - 1) :
           (u[k] \in Terminators /\ u[k + 1] \notin Terminators) =>
             u[k + 1] = " " /\ ~IsSpace(u[k + 2])

\* C17 as claimed: a text shorter than the target size yields exactly one
\* chunk, whose text is the full trimmed input
C17_ShortTextIsOneChunk ==
  (sbPc = "done" /\ Len(sbText) < TargetSize) =>
    Len(sbChunks) = 1 /\ sbChunks[1].text = Trim(sbText)

\* C17 as amended: a text shorter than the target size is never split; it
\* yields no chunk when its trimmed text has 50 characters or fewer, and
\* when its trimmed text is longer and is sentences separated by single
\* blanks it yields one chunk, whose text is the full trimmed input
C17_ShortTextIsNeverSplit ==
  (sbPc = "done" /\ Len(sbText) < TargetSize) =>
    /\ Len(sbChunks) <= 1
    /\ Len(Trim(sbText)) <= 50 => sbChunks = <<>>
    /\ (Len(Trim(sbText)) > 50 /\ SingleSpacedSentences(sbText)) =>
         Len(sbChunks) = 1 /\ sbChunks[1].text = Trim(sbText)

\* several sentences separated by single blanks, together shorter than
\* the target, returned as one chunk
C17_Witness ==
  /\ sbPc = "done"
  /\ Len(sbText) < TargetSize
  /\ Len(Trim(sbText)) > 50
  /\ SingleSpacedSentences(sbText)
  /\ \E k \in 1..(Len(sbText) - 1) : sbText[k] = "." /\ sbText[k + 1] = " "
  /\ Len(sbChunks) = 1

\* the text of twenty sentences of len characters
TwentySentences(text, len) ==
  \E separator \in Separators \ {<<>>}, fragment \in {<<>>, <<" ">>} :
    text = SampleText(len, 20, separator, fragment)

\* C18 as claimed: a text of 2000 characters made of 20 sentences of 99
\* characters and a blank each yields exactly 2 chunks, each ending on a
\* terminator, the first of 800 to 1200 characters
C18_TwentySentencesTwoChunks ==
  (sbPc = "done" /\ sbText = SampleText(99, 20, <<" ">>, <<" ">>)) =>
    /\ Len(sbChunks) = 2
    /\ \A i \in 1..Len(sbChunks) : EndsWithTerminator(sbChunks[i].text)
    /\ Len(sbChunks[1].text) >= TargetSize
    /\ Len(sbChunks[1].text) <= MaxSize

\* C18 as amended: a text of 20 sentences of 99 or 100 characters yields
\* exactly 3 chunks, each ending on a terminator; the target rule closes a
\* chunk before the sentence that reaches the target, so the first chunk is
\* shorter than the target, would reach it with the next sentence, and the
\* second chunk starts with that sentence
C18_TargetRuleClosesBeforeSentence ==
  \A len \in {99, 100} :
    (sbPc = "done" /\ TwentySentences(sbText, len)) =>
      /\ Len(sbChunks) = 3
      /\ \A i \in 1..Len(sbChunks) : EndsWithTerminator(sbChunks[i].text)
      /\ Len(sbChunks[1].text) < TargetSize
      /\ Len(sbChunks[1].text) > 300
      /\ Len(sbChunks[1].text) + 1 + len >= TargetSize
      /\ SubSeq(sbChunks[2].text, 1, len) = SampleSentence(len)

\* the 2000-character text has been chunked
C18_Witness ==
  /\ sbPc = "done"
  /\ sbText = SampleText(99, 20, <<" ">>, <<" ">>)
  /\ Len(sbText) = 2000
  /\ Len(sbChunks) = 3
  /\ Len(sbChunks[1].text) = 799

(***************************************************************************)
(* useChat (loadChat, sendMessage) under ChatInterface                     *)
(***************************************************************************)
DocumentIds == {1, 2}
Providers == {"groq", "gemini"}

\* the chunks of the two documents in the store
ChatChunks ==
  { ChunkRecord(1, [text |-> <<"a", "b", " ", "c", "d">>, section |-> "Section 1",
                    page |-> 1, chunkIndex |-> 0], <<1, "chunk", 0>>),
    ChunkRecord(1, [text |-> <<"b", "a", "b", " ", "d">>, section |-> "Section 1",
                    page |-> 2, chunkIndex |-> 1], <<1, "chunk", 1>>),
    ChunkRecord(2, [text |-> <<"C", "d", " ", "c", "d", ".">>, section |-> "Section 1",
                    page |-> 1, chunkIndex |-> 0], <<2, "chunk", 0>>) }

ChatDocuments == { [id |-> d, title |-> UntitledDocument] : d \in DocumentIds }

\* the question typed
ChatQuestion == <<" ", "c", "d", " ", "A", "B">>

\* response.content of callAI
ChatAnswer == <<"d", ".">>

\* the records of one document in the order the index returns them
RECURSIVE InKeyOrder(_)
InKeyOrder(recs) ==
  IF recs = {} THEN <<>>
  ELSE LET first == CHOOSE r \in recs : \A q \in recs : r.chunkIndex <= q.chunkIndex
       IN  <<first>> \o InKeyOrder(recs \ {first})

\* getChunksByDocument
getChunksByDocument(documentId) == InKeyOrder(GetAllFromIndex(dbChunks, documentId))

\* the key is the document id alone
ChatId_DocumentOnly(documentId, provider) == <<documentId>>

\* `${documentId}_${provider}`
ChatId(documentId, provider) == <<documentId, provider>>

\* getChatHistory(documentId, provider).messages, or [] without history
HistoryMessages(documentId, provider) ==
  IF \E h \in dbChats : h.id = ChatId(documentId, provider)
  THEN (CHOOSE h \in dbChats : h.id = ChatId(documentId, provider)).messages
  ELSE <<>>

\* the citations of the assistant message
Citations(relevantChunks) ==
  [i \in 1..Len(relevantChunks) |->
     [chunkId |-> relevantChunks[i].chunk.id,
      page |-> relevantChunks[i].chunk.page,
      text |-> Substring(relevantChunks[i].chunk.text, 0,
                        Min(100, Len(relevantChunks[i].chunk.text)))
               \o <<".", ".", ".">>]]

\* the sequence without its i-th element
RemoveAt(seq, i) == SubSeq(seq, 1, i - 1) \o SubSeq(seq, i + 1, Len(seq))

\* the catch block of sendMessage restores the list with the user's message
RollbackTo_NewMessages(send) == send.newMessages

\* the catch block of sendMessage: setMessages(messages)
RollbackTo(send) == send.messages

\* a chat history saved for a document
StoredChat(documentId, provider) ==
  [id |-> ChatId(documentId, provider), documentId |-> documentId,
   provider |-> provider,
   messages |-> <<[role |-> "user", content |-> Trim(ChatQuestion), citations |-> <<>>],
                  [role |-> "assistant", content |-> ChatAnswer, citations |-> <<>>]>>]

\* the chat store holds a history of an earlier session with document 1
\* and provider gemini
ChatInit ==
  /\ chDocumentId = 0 /\ chProvider = "groq" /\ chMessages = <<>>
  /\ chLoading = FALSE /\ chError = "none" /\ chChunks = <<>>
  /\ chLoads = <<>> /\ chSend = NoSend /\ chUserActions = 0
  /\ dbDocuments = ChatDocuments /\ dbChunks = ChatChunks
  /\ dbTables = {} /\ dbImages = {}
  /\ dbChats = {StoredChat(1, "gemini")}

\* the effect on [documentId, provider] up to its first await
StartLoadChat(documentId, provider) ==
  IF documentId = 0
  THEN chMessages' = <<>> /\ chLoads' = chLoads
  ELSE /\ chMessages' = chMessages
       /\ chLoads' = Append(chLoads, [documentId |-> documentId,
                                      provider |-> provider, pc |-> "history"])

\* the page selects another document, or none
SwitchDocument ==
  /\ chUserActions < MaxUserActions
  /\ chUserActions' = chUserActions + 1
  /\ \E d \in DocumentIds \cup {0} :
       /\ d # chDocumentId
       /\ chDocumentId' = d
       /\ StartLoadChat(d, chProvider)
  /\ UNCHANGED <<chProvider, chLoading, chError, chChunks, chSend, dbChats,
                 dbChunks, restOfChat>>

\* the user selects another provider
SwitchProvider ==
  /\ chUserActions < MaxUserActions
  /\ chUserActions' = chUserActions + 1
  /\ \E p \in Providers :
       /\ p # chProvider
       /\ chProvider' = p
       /\ StartLoadChat(chDocumentId, p)
  /\ UNCHANGED <<chDocumentId, chLoading, chError, chChunks, chSend, dbChats,
                 dbChunks, restOfChat>>

\* await getChatHistory of a loadChat run resolves
LoadHistoryResolves ==
  /\ \E i \in 1..Len(chLoads) :
       /\ chLoads[i].pc = "history"
       /\ chMessages' = HistoryMessages(chLoads[i].documentId, chLoads[i].provider)
       /\ chLoads' = [chLoads EXCEPT ![i].pc = "chunks"]
  /\ UNCHANGED <<chUserActions, chDocumentId, chProvider, chLoading, chError, chChunks, chSend,
                 dbChats, dbChunks, restOfChat>>

\* await getChunksByDocument of a loadChat run resolves
LoadChunksResolve ==
  /\ \E i \in 1..Len(chLoads) :
       /\ chLoads[i].pc = "chunks"
       /\ chChunks' = getChunksByDocument(chLoads[i].documentId)
       /\ chLoads' = RemoveAt(chLoads, i)
  /\ UNCHANGED <<chUserActions, chDocumentId, chProvider, chMessages, chLoading, chError,
                 chSend, dbChats, dbChunks, restOfChat>>

\* a store read of a loadChat run rejects: its catch block
LoadFails ==
  /\ \E i \in 1..Len(chLoads) :
       /\ chLoads[i].pc \in {"history", "chunks"}
       /\ chMessages' = <<>>
       /\ chLoads' = RemoveAt(chLoads, i)
  /\ UNCHANGED <<chUserActions, chDocumentId, chProvider, chLoading, chError, chChunks, chSend,
                 dbChats, dbChunks, restOfChat>>

\* handleSend and sendMessage up to await callAI
SendMessage ==
  /\ ~chLoading
  /\ Trim(ChatQuestion) # <<>>
  /\ chDocumentId # 0
  /\ chUserActions < MaxUserActions
  /\ chUserActions' = chUserActions + 1
  /\ LET userMessage == [role |-> "user", content |-> Trim(ChatQuestion),
                         citations |-> <<>>]
         newMessages == Append(chMessages, userMessage)
     IN  /\ chLoading' = TRUE
         /\ chError' = "none"
         /\ chMessages' = newMessages
         /\ chSend' = [pc |-> "callAI", documentId |-> chDocumentId,
                       provider |-> chProvider, messages |-> chMessages,
                       newMessages |-> newMessages,
                       relevantChunks |-> searchChunks(ChatQuestion, chChunks, 5),
                       failed |-> "none"]
  /\ UNCHANGED <<chDocumentId, chProvider, chChunks, chLoads, dbChats, dbChunks,
                 restOfChat>>

\* await callAI resolves: the answer is shown, the history is being saved
CallAIResolves ==
  /\ chSend.pc = "callAI"
  /\ chMessages' = Append(chSend.newMessages,
                          [role |-> "assistant", content |-> ChatAnswer,
                           citations |-> Citations(chSend.relevantChunks)])
  /\ chSend' = [chSend EXCEPT !.pc = "save"]
  /\ UNCHANGED <<chUserActions, chDocumentId, chProvider, chLoading, chError, chChunks, chLoads,
                 dbChats, dbChunks, restOfChat>>

\* await callAI rejects: catch, rethrow, finally
CallAIFails ==
  /\ chSend.pc = "callAI"
  /\ chError' = "AI request failed"
  /\ chMessages' = RollbackTo(chSend)
  /\ chLoading' = FALSE
  /\ chSend' = [chSend EXCEPT !.pc = "rejected", !.failed = "callAI"]
  /\ UNCHANGED <<chUserActions, chDocumentId, chProvider, chChunks, chLoads, dbChats, dbChunks,
                 restOfChat>>

\* await saveChatHistory resolves: finally
SaveChatResolves ==
  /\ chSend.pc = "save"
  /\ dbChats' = Put(dbChats, [id |-> ChatId(chSend.documentId, chSend.provider),
                              documentId |-> chSend.documentId,
                              provider |-> chSend.provider,
                              messages |-> Append(chSend.newMessages,
                                  [role |-> "assistant", content |-> ChatAnswer,
                                   citations |-> Citations(chSend.relevantChunks)])])
  /\ chLoading' = FALSE
  /\ chSend' = [chSend EXCEPT !.pc = "resolved"]
  /\ UNCHANGED <<chUserActions, chDocumentId, chProvider, chMessages, chError, chChunks, chLoads,
                 dbChunks, restOfChat>>

\* await saveChatHistory rejects: catch, rethrow, finally
SaveChatFails ==
  /\ chSend.pc = "save"
  /\ chError' = "store error"
  /\ chMessages' = RollbackTo(chSend)
  /\ chLoading' = FALSE
  /\ chSend' = [chSend EXCEPT !.pc = "rejected", !.failed = "saveChatHistory"]
  /\ UNCHANGED <<chUserActions, chDocumentId, chProvider, chChunks, chLoads, dbChats, dbChunks,
                 restOfChat>>

\* handleDeleteChat of ChatInterface up to await deleteChatHistory
HandleDeleteChat ==
  /\ chDocumentId # 0
  /\ chUserActions < MaxUserActions
  /\ chUserActions' = chUserActions + 1
  /\ chLoads' = Append(chLoads, [documentId |-> chDocumentId,
                                 provider |-> chProvider, pc |-> "deleteChat"])
  /\ UNCHANGED <<chDocumentId, chProvider, chMessages, chLoading, chError,
                 chChunks, chSend, dbChats, dbChunks, restOfChat>>

\* deleteChatHistory(documentId, provider)
deleteChatHistory(chats, documentId, provider) ==
  Delete(chats, ChatId(documentId, provider))

\* await deleteChatHistory resolves, then clearChat: setMessages([]),
\* setError(null)
DeleteChatResolves ==
  /\ \E i \in 1..Len(chLoads) :
       /\ chLoads[i].pc = "deleteChat"
       /\ dbChats' = deleteChatHistory(dbChats, chLoads[i].documentId, chLoads[i].provider)
       /\ chLoads' = RemoveAt(chLoads, i)
  /\ chMessages' = <<>>
  /\ chError' = "none"
  /\ UNCHANGED <<chUserActions, chDocumentId, chProvider, chLoading, chChunks,
                 chSend, dbChunks, restOfChat>>

\* await deleteChatHistory rejects: the catch block of handleDeleteChat
DeleteChatFails ==
  /\ \E i \in 1..Len(chLoads) :
       /\ chLoads[i].pc = "deleteChat"
       /\ chLoads' = RemoveAt(chLoads, i)
  /\ UNCHANGED <<chUserActions, chDocumentId, chProvider, chMessages, chLoading,
                 chError, chChunks, chSend, dbChats, dbChunks, restOfChat>>

ChatNext ==
  \/ SwitchDocument
  \/ SwitchProvider
  \/ LoadHistoryResolves
  \/ LoadChunksResolve
  \/ LoadFails
  \/ SendMessage
  \/ CallAIResolves
  \/ CallAIFails
  \/ SaveChatResolves
  \/ SaveChatFails
  \/ HandleDeleteChat
  \/ DeleteChatResolves
  \/ DeleteChatFails

InitChat == ChatInit /\ ChunkingIdle /\ SearchIdle /\ TablesIdle /\ ExtractIdle /\ DeleteIdle /\ IngestIdle /\ PureCallsIdle

SpecChat == InitChat /\ [][ChatNext]_vars

\* C3: every chunk ranked for a sendMessage issued with document D
\* selected, and every chunk its answer cites, is a chunk of D
C3_RetrievalWithinDocument ==
  chSend.pc # "none" =>
    /\ \A i \in 1..Len(chSend.relevantChunks) :
         chSend.relevantChunks[i].chunk.documentId = chSend.documentId
    /\ \A i \in 1..Len(Citations(chSend.relevantChunks)) :
         \A c \in dbChunks :
           c.id = Citations(chSend.relevantChunks)[i].chunkId =>
             c.documentId = chSend.documentId

\* C7: when callAI rejects, sendMessage puts back the message list it
\* was called with, which is the list shown after the send without the
\* user's message, writes nothing to the chat store, records the error,
\* rejects, and sets loading to false
C7_FailedSendRollsBack ==
  [][(chSend.pc = "callAI" /\ chSend'.pc = "rejected") =>
       /\ chMessages' = chSend.messages
       /\ chSend.newMessages = Append(chMessages', chSend.newMessages[Len(chSend.newMessages)])
       /\ chSend.newMessages[Len(chSend.newMessages)].role = "user"
       /\ dbChats' = dbChats
       /\ chError' = "AI request failed"
       /\ chSend'.failed = "callAI"
       /\ chLoading /\ ~chLoading']_vars

\* a send after a saved exchange whose callAI was rejected: the two
\* messages of the exchange are back, the third is gone, the store holds
\* the history of the first exchange only
C7_Witness ==
  /\ chSend.pc = "rejected" /\ chSend.failed = "callAI"
  /\ Len(chSend.messages) = 2
  /\ chMessages = chSend.messages
  /\ ~chLoading /\ chError = "AI request failed"
  /\ \A h \in dbChats : Len(h.messages) = 2


\* no loadChat or handleDeleteChat run and no sendMessage call is in flight
ChatSettled == chLoads = <<>> /\ chSend.pc \notin {"callAI", "save"}

\* C26: once every load, clear and send in flight has settled, the message
\* list shown is the history stored for the selected document and provider
C26_ShownIsStoredHistory ==
  (ChatSettled /\ chDocumentId # 0) =>
    chMessages = HistoryMessages(chDocumentId, chProvider)

\* the chat histories other than that of a document and provider
OtherHistories(chats, documentId, provider) ==
  {h \in chats : h.documentId # documentId \/ h.provider # provider}

\* C29: the step that completes a successful sendMessage issued for
\* document D and provider P puts one record for (D, P), holding the
\* messages of that call and the answer, and leaves every other chat
\* history as it was;
\* the only other step of the chat panel that changes the chat store
\* completes a call deleteChatHistory(D, P), and it removes the record of
\* (D, P) and leaves every other chat history as it was
C29_HistoryPerDocumentAndProvider ==
  [][/\ (chSend.pc = "save" /\ chSend'.pc = "resolved") =>
          /\ \E h \in dbChats' :
               /\ h.documentId = chSend.documentId /\ h.provider = chSend.provider
               /\ SubSeq(h.messages, 1, Len(h.messages) - 1) = chSend.newMessages
               /\ h.messages[Len(h.messages)].role = "assistant"
               /\ dbChats' \ OtherHistories(dbChats', chSend.documentId, chSend.provider) = {h}
          /\ OtherHistories(dbChats', chSend.documentId, chSend.provider)
               = OtherHistories(dbChats, chSend.documentId, chSend.provider)
     /\ dbChats' # dbChats =>
          \/ chSend.pc = "save" /\ chSend'.pc = "resolved"
          \/ \E i \in 1..Len(chLoads) :
               /\ chLoads[i].pc = "deleteChat" /\ chLoads' = RemoveAt(chLoads, i)
               /\ dbChats' = OtherHistories(dbChats, chLoads[i].documentId,
                                            chLoads[i].provider)]_vars

\* a history of (1, gemini) was stored; an exchange with (1, groq) was
\* saved and then deleted: the history of (1, gemini) is still stored
C29_Witness ==
  /\ ChatSettled
  /\ chSend.pc = "resolved" /\ chSend.documentId = 1 /\ chSend.provider = "groq"
  /\ dbChats = {StoredChat(1, "gemini")}

(***************************************************************************)
(* db: deleteDocument                                                      *)
(***************************************************************************)
\* the tables of a stored document: those detectTables finds on a page of
\* three rows of two cells, saved with the document id
StoredTables(documentId) ==
  LET tables == detectTables(GridItems(<<2, 2, 2>>, FALSE), 1)
  IN  { [tables[i] EXCEPT !.documentId = documentId,
                          !.id = <<documentId>> \o tables[i].id] :
        i \in 1..Len(tables) }

\* the five object stores
StoreSnapshot ==
  [documents |-> dbDocuments, chunks |-> dbChunks, tables |-> dbTables,
   images |-> dbImages, chats |-> dbChats]

\* the keys of the records of a store, in some fixed order
RECURSIVE KeysOf(_)
KeysOf(recs) ==
  IF recs = {} THEN <<>>
  ELSE LET first == CHOOSE r \in recs : TRUE
       IN  <<first.id>> \o KeysOf(recs \ {first})

\* deleteDocument stops after the images
AfterSweep_SkipChats(store) ==
  CASE store = "documents" -> "chunks"
    [] store = "chunks" -> "tables"
    [] store = "tables" -> "images"
    [] OTHER -> "done"

\* the object store deleteDocument turns to after one is swept
AfterSweep(store) ==
  CASE store = "documents" -> "chunks"
    [] store = "chunks" -> "tables"
    [] store = "tables" -> "images"
    [] store = "images" -> "chats"
    [] OTHER -> "done"

InProgress(run) == run.store \notin {"done", "rejected"}

DeleteInit ==
  /\ dlRuns = <<>>
  /\ dbDocuments = ChatDocuments
  /\ dbChunks = ChatChunks
  /\ dbTables = StoredTables(1) \cup StoredTables(2)
  /\ dbImages = {}
  /\ dbChats = {StoredChat(1, "groq"), StoredChat(2, "groq")}

\* a call deleteDocument(id) up to its first await on the store
StartDelete ==
  /\ Len(dlRuns) < MaxDeletes
  /\ \E id \in DocumentIds :
       dlRuns' = Append([i \in 1..Len(dlRuns) |->
                           IF InProgress(dlRuns[i]) THEN [dlRuns[i] EXCEPT !.alone = FALSE]
                           ELSE dlRuns[i]],
                        [id |-> id, store |-> "documents", phase |-> "delete",
                         pending |-> <<id>>, before |-> StoreSnapshot,
                         alone |-> \A i \in 1..Len(dlRuns) : ~InProgress(dlRuns[i])])
  /\ UNCHANGED <<dbVars, restOfDelete>>

\* the run after the await it is at has resolved
Advance(run, pending) ==
  IF pending # <<>>
  THEN [run EXCEPT !.phase = "delete", !.pending = pending]
  ELSE [run EXCEPT !.store = AfterSweep(run.store), !.phase = "read", !.pending = <<>>]

\* await db.getAllFromIndex(store, 'by-document', id) resolves
ReadIndex ==
  /\ \E i \in 1..Len(dlRuns) :
       LET run == dlRuns[i]
           store == CASE run.store = "chunks" -> dbChunks
                      [] run.store = "tables" -> dbTables
                      [] run.store = "images" -> dbImages
                      [] OTHER -> dbChats
       IN  /\ InProgress(run)
           /\ run.phase = "read"
           /\ dlRuns' = [dlRuns EXCEPT
                           ![i] = Advance(run, KeysOf(GetAllFromIndex(store, run.id)))]
  /\ UNCHANGED <<dbVars, restOfDelete>>

\* await db.delete(store, key) resolves
DeleteRecord ==
  /\ \E i \in 1..Len(dlRuns) :
       LET run == dlRuns[i]
           key == Head(run.pending)
       IN  /\ InProgress(run)
           /\ run.phase = "delete"
           /\ dbDocuments' = IF run.store = "documents" THEN Delete(dbDocuments, key)
                             ELSE dbDocuments
           /\ dbChunks' = IF run.store = "chunks" THEN Delete(dbChunks, key) ELSE dbChunks
           /\ dbTables' = IF run.store = "tables" THEN Delete(dbTables, key) ELSE dbTables
           /\ dbImages' = IF run.store = "images" THEN Delete(dbImages, key) ELSE dbImages
           /\ dbChats' = IF run.store = "chats" THEN Delete(dbChats, key) ELSE dbChats
           /\ dlRuns' = [dlRuns EXCEPT ![i] = Advance(run, Tail(run.pending))]
  /\ UNCHANGED restOfDelete

\* a store request of deleteDocument rejects: the call rejects where it is
DeleteRejects ==
  /\ \E i \in 1..Len(dlRuns) :
       /\ InProgress(dlRuns[i])
       /\ dlRuns' = [dlRuns EXCEPT ![i].store = "rejected"]
  /\ UNCHANGED <<dbVars, restOfDelete>>

\* another operation on the store while a deleteDocument call is in
\* progress: saveChatHistory of the chat panel for one of the documents
OtherStoreOperation ==
  /\ \E i \in 1..Len(dlRuns) : InProgress(dlRuns[i])
  /\ \E d \in DocumentIds :
       dbChats' = Put(dbChats, StoredChat(d, "gemini"))
  /\ dlRuns' = [i \in 1..Len(dlRuns) |->
                  IF InProgress(dlRuns[i]) THEN [dlRuns[i] EXCEPT !.alone = FALSE]
                  ELSE dlRuns[i]]
  /\ UNCHANGED <<dbDocuments, dbChunks, dbTables, dbImages, restOfDelete>>

DeleteNext ==
  \/ StartDelete
  \/ ReadIndex
  \/ DeleteRecord
  \/ DeleteRejects
  \/ OtherStoreOperation

InitDelete ==
  /\ DeleteInit /\ ChunkingIdle /\ SearchIdle /\ TablesIdle /\ ExtractIdle
  /\ ChatIdle /\ IngestIdle /\ PureCallsIdle

SpecDelete == InitDelete /\ [][DeleteNext]_vars

\* the records of a store that do not belong to document id
OfOthers(recs, id) == {r \in recs : r.documentId # id}

\* C9: at the step that completes deleteDocument(id), no other store
\* operation having run since the call started, no store holds a document
\* with key id or a chunk, table, image or chat history with document id
\* id, and the records of the other documents are those the stores held
\* when the call started
C9_DeleteCascades ==
  [][\A i \in 1..Len(dlRuns) :
       (/\ InProgress(dlRuns[i])
        /\ Len(dlRuns') = Len(dlRuns)
        /\ dlRuns'[i].store = "done"
        /\ dlRuns'[i].alone) =>
         LET id == dlRuns[i].id
             before == dlRuns[i].before
         IN  /\ \A doc \in dbDocuments' : doc.id # id
             /\ GetAllFromIndex(dbChunks', id) = {}
             /\ GetAllFromIndex(dbTables', id) = {}
             /\ GetAllFromIndex(dbImages', id) = {}
             /\ GetAllFromIndex(dbChats', id) = {}
             /\ dbDocuments' = {doc \in before.documents : doc.id # id}
             /\ dbChunks' = OfOthers(before.chunks, id)
             /\ dbTables' = OfOthers(before.tables, id)
             /\ dbImages' = OfOthers(before.images, id)
             /\ dbChats' = OfOthers(before.chats, id)]_vars

\* deleteDocument(1) completed alone on a store that held the document,
\* two chunks, a table and a chat history of document 1 next to those of
\* document 2, which are all still there
C9_Witness ==
  \E i \in 1..Len(dlRuns) :
    /\ dlRuns[i].store = "done" /\ dlRuns[i].alone /\ dlRuns[i].id = 1
    /\ Cardinality(GetAllFromIndex(dlRuns[i].before.chunks, 1)) = 2
    /\ GetAllFromIndex(dlRuns[i].before.tables, 1) # {}
    /\ GetAllFromIndex(dlRuns[i].before.chats, 1) # {}
    /\ GetAllFromIndex(dbChunks, 1) = {} /\ GetAllFromIndex(dbChats, 1) = {}
    /\ GetAllFromIndex(dbChunks, 2) # {} /\ GetAllFromIndex(dbTables, 2) # {}
    /\ GetAllFromIndex(dbChats, 2) # {}
    /\ \E doc \in dbDocuments : doc.id = 2

\* the ids of the document records in the store
StoredDocumentIds == {doc.id : doc \in dbDocuments}

\* C24: in every reachable state, the states between the store requests of
\* a deleteDocument call included, every chunk, table and chat history in
\* the store has the document id of a document record in the store
C24_NoOrphanRecords ==
  /\ \A chunk \in dbChunks : chunk.documentId \in StoredDocumentIds
  /\ \A table \in dbTables : table.documentId \in StoredDocumentIds
  /\ \A chat \in dbChats : chat.documentId \in StoredDocumentIds


(***************************************************************************)
(* pages/Index: handleFileSelect; PDFUploader; useDocuments                *)
(***************************************************************************)
\* what extractTextFromPDF and extractSections yield for the files of the
\* model: a page with one table and one section, and a file without
\* tables and with two sections
SampleExtractions ==
  { [title |-> <<"a", "a">>, pageCount |-> 1,
     tables |-> detectTables(GridItems(<<2, 2, 2>>, FALSE), 1),
     sections |-> <<[title |-> "Section 1", content |-> MakeText(3, 4, 4), page |-> 1]>>],
    [title |-> UntitledDocument, pageCount |-> 2,
     tables |-> <<>>,
     sections |-> <<[title |-> "Section 1", content |-> MakeText(3, 4, 4), page |-> 1],
                    [title |-> "Section 2", content |-> MakeText(2, 4, 5), page |-> 2]>>] }

NoExtraction == [title |-> <<>>, pageCount |-> 0, tables |-> <<>>, sections |-> <<>>]

\* the run is between its start and its end
Active(run) == run.pc \notin {"done", "error"}

\* the keys of the documents in the order of loadDocuments: newest first
RECURSIVE NewestFirst(_)
NewestFirst(docs) ==
  IF docs = {} THEN <<>>
  ELSE LET newest == CHOOSE d \in docs : \A e \in docs : e.id <= d.id
       IN  <<newest.id>> \o NewestFirst(docs \ {newest})

IngestInit ==
  /\ inIsProcessing = FALSE /\ inProcessingStatus = "" /\ inSelectedDocumentId = 0
  /\ inDocuments = <<>> /\ inRuns = <<>> /\ inTimers = 0
  /\ EmptyStore

\* handleFileSelect up to await extractTextFromPDF; uuidv4() is the next
\* unused number
StartRun(via) ==
  /\ Len(inRuns) < MaxRuns
  /\ inIsProcessing' = TRUE
  /\ inProcessingStatus' = "Reading PDF file..."
  /\ inRuns' = Append(inRuns, [documentId |-> Len(inRuns) + 1, via |-> via,
                               pc |-> "extract", extraction |-> NoExtraction,
                               tableIdx |-> 0, chunks |-> <<>>, chunkIdx |-> 0,
                               error |-> "none"])
  /\ UNCHANGED <<inSelectedDocumentId, inDocuments, inTimers, dbDocuments,
                 dbTables, dbChunks, restOfIngest>>

\* PDFUploader.handleFileInput: the input is disabled while isProcessing;
\* the uploader is shown while no document is selected
PickFile ==
  /\ inSelectedDocumentId = 0
  /\ ~inIsProcessing
  /\ StartRun("picker")

\* PDFUploader.handleDrop: checks hasMandatoryKeys and the file type only
DropFile ==
  /\ inSelectedDocumentId = 0
  /\ StartRun("drop")

\* handleBackToUpload
BackToUpload ==
  /\ inSelectedDocumentId # 0
  /\ inSelectedDocumentId' = 0
  /\ UNCHANGED <<inIsProcessing, inProcessingStatus, inDocuments, inRuns,
                 inTimers, dbDocuments, dbTables, dbChunks, restOfIngest>>

\* the catch block and the finally block of handleFileSelect
Fail(i, message) ==
  /\ inRuns' = [inRuns EXCEPT ![i].pc = "error", ![i].error = message]
  /\ inProcessingStatus' = "Error"
  /\ inTimers' = inTimers + 1
  /\ UNCHANGED <<inIsProcessing, inSelectedDocumentId, inDocuments, dbDocuments,
                 dbTables, dbChunks, restOfIngest>>

\* the run from "Creating searchable chunks..." to its next await: the
\* first saveChunk, or refresh() when there is no chunk to save
EnterChunks(run) ==
  LET chunks == generateChunks(run.extraction.sections)
  IN  [run EXCEPT !.chunks = chunks, !.chunkIdx = 0,
                  !.pc = IF chunks = <<>> THEN "refresh" ELSE "saveChunk"]

\* the run from the end of addDocument to its next await
EnterTables(run) ==
  IF run.extraction.tables = <<>> THEN EnterChunks(run)
  ELSE [run EXCEPT !.tableIdx = 0, !.pc = "saveTable"]

\* what the run that has come to pc makes of the page state
PageAfter(run) ==
  /\ inProcessingStatus' = CASE run.pc = "saveTable" -> "Saving document..."
                             [] run.pc = "saveChunk" -> "Generating embeddings..."
                             [] OTHER -> "Done!"
  /\ inSelectedDocumentId' = IF run.pc = "refresh" THEN run.documentId
                             ELSE inSelectedDocumentId

\* await extractTextFromPDF resolves; sections, themes, summary, document
ExtractionResolves ==
  /\ \E i \in 1..Len(inRuns), extraction \in SampleExtractions :
       /\ inRuns[i].pc = "extract"
       /\ inRuns' = [inRuns EXCEPT ![i].extraction = extraction,
                                   ![i].pc = "saveDocument"]
  /\ inProcessingStatus' = "Saving document..."
  /\ UNCHANGED <<inIsProcessing, inSelectedDocumentId, inDocuments, inTimers,
                 dbDocuments, dbTables, dbChunks, restOfIngest>>

\* await file.arrayBuffer() or await extractTextFromPDF rejects
ExtractionRejects ==
  \E i \in 1..Len(inRuns) :
    /\ inRuns[i].pc = "extract"
    /\ Fail(i, "InvalidPDFException")

\* addDocument: await saveDocument(document) resolves
SaveDocumentResolves ==
  /\ \E i \in 1..Len(inRuns) :
       LET run == inRuns[i]
       IN  /\ run.pc = "saveDocument"
           /\ dbDocuments' = Put(dbDocuments,
                                 [id |-> run.documentId,
                                  title |-> run.extraction.title,
                                  pageCount |-> run.extraction.pageCount,
                                  sections |-> run.extraction.sections])
           /\ inRuns' = [inRuns EXCEPT ![i].pc = "loadDocuments"]
  /\ UNCHANGED <<inIsProcessing, inProcessingStatus, inSelectedDocumentId,
                 inDocuments, inTimers, dbTables, dbChunks, restOfIngest>>

\* addDocument: await saveDocument(document) rejects
SaveDocumentRejects ==
  \E i \in 1..Len(inRuns) :
    /\ inRuns[i].pc = "saveDocument"
    /\ Fail(i, "store error")

\* loadDocuments settles, in addDocument or as refresh(): it catches a
\* failed read itself and leaves the documents as they are
LoadDocumentsSettles ==
  /\ \E i \in 1..Len(inRuns), ok \in BOOLEAN :
       LET run == inRuns[i]
       IN  /\ run.pc \in {"loadDocuments", "refresh"}
           /\ inDocuments' = IF ok THEN NewestFirst(dbDocuments) ELSE inDocuments
           /\ IF run.pc = "loadDocuments"
              THEN /\ inRuns' = [inRuns EXCEPT ![i] = EnterTables(run)]
                   /\ PageAfter(EnterTables(run))
                   /\ inTimers' = inTimers
              ELSE /\ inRuns' = [inRuns EXCEPT ![i].pc = "done"]
                   /\ inTimers' = inTimers + 1
                   /\ UNCHANGED <<inProcessingStatus, inSelectedDocumentId>>
  /\ UNCHANGED <<inIsProcessing, dbDocuments, dbTables, dbChunks, restOfIngest>>

\* await saveTable(tableWithDocId) resolves; the key of the table is made
\* unique by the document id
SaveTableResolves ==
  /\ \E i \in 1..Len(inRuns) :
       LET run == inRuns[i]
           table == run.extraction.tables[run.tableIdx + 1]
           next == IF run.tableIdx + 1 < Len(run.extraction.tables)
                   THEN [run EXCEPT !.tableIdx = run.tableIdx + 1]
                   ELSE EnterChunks(run)
       IN  /\ run.pc = "saveTable"
           /\ dbTables' = Put(dbTables, [table EXCEPT !.documentId = run.documentId,
                                                      !.id = <<run.documentId>> \o table.id])
           /\ inRuns' = [inRuns EXCEPT ![i] = next]
           /\ PageAfter(next)
  /\ UNCHANGED <<inIsProcessing, inDocuments, inTimers, dbDocuments, dbChunks,
                 restOfIngest>>

\* await saveTable(tableWithDocId) rejects
SaveTableRejects ==
  \E i \in 1..Len(inRuns) :
    /\ inRuns[i].pc = "saveTable"
    /\ Fail(i, "store error")

\* await saveChunk({...}) resolves
SaveChunkResolves ==
  /\ \E i \in 1..Len(inRuns) :
       LET run == inRuns[i]
           next == IF run.chunkIdx + 1 < Len(run.chunks)
                   THEN [run EXCEPT !.chunkIdx = run.chunkIdx + 1]
                   ELSE [run EXCEPT !.chunkIdx = run.chunkIdx + 1, !.pc = "refresh"]
       IN  /\ run.pc = "saveChunk"
           /\ dbChunks' = Put(dbChunks,
                              ChunkRecord(run.documentId, run.chunks[run.chunkIdx + 1],
                                          <<run.documentId, "chunk", run.chunkIdx>>))
           /\ inRuns' = [inRuns EXCEPT ![i] = next]
           /\ PageAfter(next)
  /\ UNCHANGED <<inIsProcessing, inDocuments, inTimers, dbDocuments, dbTables,
                 restOfIngest>>

\* await saveChunk({...}) rejects
SaveChunkRejects ==
  \E i \in 1..Len(inRuns) :
    /\ inRuns[i].pc = "saveChunk"
    /\ Fail(i, "store error")

\* a timer set by a finally block fires, one second after its run ended
TimerFires ==
  /\ inTimers > 0
  /\ inTimers' = inTimers - 1
  /\ inIsProcessing' = FALSE
  /\ inProcessingStatus' = ""
  /\ UNCHANGED <<inSelectedDocumentId, inDocuments, inRuns, dbDocuments,
                 dbTables, dbChunks, restOfIngest>>

IngestNext ==
  \/ PickFile
  \/ DropFile
  \/ BackToUpload
  \/ ExtractionResolves
  \/ ExtractionRejects
  \/ SaveDocumentResolves
  \/ SaveDocumentRejects
  \/ LoadDocumentsSettles
  \/ SaveTableResolves
  \/ SaveTableRejects
  \/ SaveChunkResolves
  \/ SaveChunkRejects
  \/ TimerFires

InitIngest ==
  /\ IngestInit /\ ChunkingIdle /\ SearchIdle /\ TablesIdle /\ ExtractIdle
  /\ ChatIdle /\ DeleteIdle /\ PureCallsIdle

SpecIngest == InitIngest /\ [][IngestNext]_vars

\* C8: when a run has ended in its error path, the documents store holds
\* no record with the document id of the run
C8_FailedRunLeavesNoDocument ==
  \A i \in 1..Len(inRuns) :
    inRuns[i].pc = "error" =>
      \A doc \in dbDocuments : doc.id # inRuns[i].documentId

\* C10: at most one handleFileSelect run is between its start and its end
C10_OneActiveRun ==
  Cardinality({i \in 1..Len(inRuns) : Active(inRuns[i])}) <= 1


====
